---- MODULE Spec2Model ----
(***************************************************************************)
(* The conversational booking agent of src/agent.py (AmedisOnlineAgent)    *)
(* as a state machine: one action per public operation, the tools it       *)
(* calls being an environment that answers or raises.                      *)
(*                                                                         *)
(* Text.  A Python str is a sequence of symbols.  A symbol is one digit,   *)
(* one separator character, or a group of letters written as one symbol    *)
(* (Belarusian words are transliterated: "tak" is the word spelled         *)
(* t-a-k in Cyrillic, "ne" is n-e, "zapis"+"ac"+"ca" is the verb           *)
(* "zapisacca").  A word is split into several groups exactly where a      *)
(* keyword of the program can begin or end inside it, so that Python's     *)
(* `kw in text` is the contiguous-subsequence test Contains.               *)
(***************************************************************************)
EXTENDS Integers, Sequences, FiniteSets, TLC

\* Python None, as a text value (no text is equal to it).
None == <<"None">>

\* Python None, where an object or a dict is expected.
NoneObj == [none |-> TRUE]

\* Python None, where the name of a goal or of a stage is expected.
NoName == "None"

\* Python truthiness of an optional text: neither None nor "".
Truthy(x) == x # None /\ x # <<>>

\* Python `x or d`.
Or(x, d) == IF Truthy(x) THEN x ELSE d

Digits == {"0", "1", "2", "3", "4", "5", "6", "7", "8", "9"}

\* Whitespace (regex \s, str.strip).
Spaces == {" ", "\n"}

\* The non-word characters used in messages; "#" is the numero sign.
Seps == {".", "-", ":", "=", "#", ",", "/"}

\* Letter groups made of Cyrillic letters of the range a..ja or jo
\* (regex class [a-ja jo] of _extract_insurer).
CyrBasic ==
    {"tak", "ne", "ok", "dobra", "admena", "zapis", "ac", "ca", "da", "y",
     "pakazhy", "admiani", "skasuj", "napramk", "i", "d", "tar", "paslug",
     "slot", "strah", "o", "ka", "avaja", "kamentar", "pryvitanne",
     "znojdzeny"}

\* Cyrillic letter groups outside that range ("w" is the short u).
CyrOther == {"w"}

\* Upper-case letter groups and their lower-case form (str.lower).
UpperOf == [c \in {"Kardio", "Ivanou", "Uzi", "Ne"} |->
               CASE c = "Kardio" -> "kardio"
                 [] c = "Ivanou" -> "ivanou"
                 [] c = "Uzi" -> "uzi"
                 [] c = "Ne" -> "ne"]

IsDigit(c) == c \in Digits
IsSpace(c) == c \in Spaces

\* regex \w: letters, digits (and the underscore, inside letter groups).
IsWordChar(c) == c \notin Spaces /\ c \notin Seps

\* regex [A-Za-z0-9._-] of _extract_token's second rule.
IsAsciiTokenChar(c) ==
    \/ c \in Digits
    \/ c \in {".", "-"}
    \/ IsWordChar(c) /\ c \notin CyrBasic /\ c \notin CyrOther

\* regex [\w.-] of _extract_token's first rule.
IsTokenChar(c) == IsWordChar(c) \/ c \in {".", "-"}

\* regex [\w./\\-] of _maybe_handle_har.
IsPathChar(c) == IsWordChar(c) \/ c \in {".", "-", "/"}

LowerChar(c) == IF c \in DOMAIN UpperOf THEN UpperOf[c] ELSE c

\* str.lower
Lower(s) == [i \in 1..Len(s) |-> LowerChar(s[i])]

\* len(str): the number of characters, a letter group counting its letters.
RECURSIVE PyLen(_)
PyLen(s) == IF s = <<>> THEN 0 ELSE Len(Head(s)) + PyLen(Tail(s))

SetMin(S) == CHOOSE x \in S : \A y \in S : x <= y
SetMax(S) == CHOOSE x \in S : \A y \in S : x >= y

\* str.strip
Strip(s) ==
    LET keep == {i \in 1..Len(s) : ~IsSpace(s[i])}
    IN  IF keep = {} THEN <<>> ELSE SubSeq(s, SetMin(keep), SetMax(keep))

\* Python `sub in s`.
Contains(s, sub) ==
    \E i \in 0..(Len(s) - Len(sub)) : SubSeq(s, i + 1, i + Len(sub)) = sub

\* The character classes of the regexes, by name: \s, \d, [\w.-] and
\* the Cyrillic range of _extract_insurer.
InClass(class, c) ==
    CASE class = "space" -> IsSpace(c)
      [] class = "digit" -> IsDigit(c)
      [] class = "token" -> IsTokenChar(c)
      [] class = "cyr" -> LowerChar(c) \in CyrBasic

\* The last index j >= i such that s[i..j] are all of the class (i - 1 if none).
RunEnd(s, i, class) ==
    LET stop == {j \in i..Len(s) : ~InClass(class, s[j])}
    IN  IF stop = {} THEN Len(s) ELSE SetMin(stop) - 1

\* regex \s* from position i: the first position that is not a space.
SkipSpaces(s, i) == RunEnd(s, i, "space") + 1

\* regex \s*[=:]\s* after a key ending at position e: the position where the
\* value starts, 0 when the text does not match.
KvValueStart(s, e) ==
    LET j == SkipSpaces(s, e + 1)
    IN  IF j <= Len(s) /\ s[j] \in {"=", ":"} THEN SkipSpaces(s, j + 1) ELSE 0

\* int(str) of a digit run.
DigitVal == [c \in Digits |->
    CASE c = "0" -> 0 [] c = "1" -> 1 [] c = "2" -> 2 [] c = "3" -> 3
      [] c = "4" -> 4 [] c = "5" -> 5 [] c = "6" -> 6 [] c = "7" -> 7
      [] c = "8" -> 8 [] c = "9" -> 9]

RECURSIVE ToInt(_)
ToInt(ds) ==
    IF ds = <<>> THEN 0
    ELSE ToInt(SubSeq(ds, 1, Len(ds) - 1)) * 10 + DigitVal[ds[Len(ds)]]

\* The start positions of the matches of \b(\d+)\b : maximal digit runs with
\* a non-word character (or the end of the text) on both sides.
NumberStarts(s) ==
    {i \in 1..Len(s) :
        /\ IsDigit(s[i])
        /\ (i = 1 \/ ~IsWordChar(s[i - 1]))
        /\ LET j == RunEnd(s, i, "digit")
           IN  j = Len(s) \/ ~IsWordChar(s[j + 1])}

\* re.search(r"\b(\d+)\b", message): the first such run, or None.
FirstNumber(s) ==
    IF NumberStarts(s) = {} THEN None
    ELSE LET i == SetMin(NumberStarts(s))
         IN  SubSeq(s, i, RunEnd(s, i, "digit"))

\* re.search(r"\b(\d{3,})\b", message)
FirstLongNumber(s) ==
    LET starts == {i \in NumberStarts(s) : RunEnd(s, i, "digit") - i + 1 >= 3}
    IN  IF starts = {} THEN None
        ELSE LET i == SetMin(starts) IN SubSeq(s, i, RunEnd(s, i, "digit"))

\* The group of the leftmost match of  <key>\s*[=:]\s*(<class>+)  where the
\* key is one letter group of Keys (IGNORECASE), or None.
KeyedRun(s, Keys, class) ==
    LET ok(i) == /\ LowerChar(s[i]) \in Keys
                 /\ KvValueStart(s, i) \in 1..Len(s)
                 /\ InClass(class, s[KvValueStart(s, i)])
        starts == {i \in 1..Len(s) : ok(i)}
    IN  IF starts = {} THEN None
        ELSE LET k == KvValueStart(s, SetMin(starts))
             IN  SubSeq(s, k, RunEnd(s, k, class))


(***************************************************************************)
(* The extractors and intent tests of AmedisOnlineAgent (utility helpers). *)
(***************************************************************************)

\* _extract_token: token\s*[=:]\s*([\w.-]+), else a message of more than 20
\* characters made only of [A-Za-z0-9._-].
_extract_token(message) ==
    LET m == KeyedRun(message, {"token"}, "token")
    IN  IF m # None THEN Strip(m)
        ELSE IF /\ PyLen(message) > 20
                /\ message # <<>>
                /\ \A i \in 1..Len(message) : IsAsciiTokenChar(message[i])
             THEN message
             ELSE None

\* _extract_patient_id: patient\s*[=:]\s*(\d+), else the first \b(\d{3,})\b.
_extract_patient_id(message) ==
    LET m == KeyedRun(message, {"patient"}, "digit")
    IN  IF m # None THEN m ELSE FirstLongNumber(message)

\* The end of an insurer key starting at position i (0 if none starts there):
\* ins_name | insurer | strah[a-ja jo]+ , ignoring case.
InsurerKeyEnd(s, i) ==
    IF LowerChar(s[i]) \in {"ins_name", "insurer"} THEN i
    ELSE IF /\ LowerChar(s[i]) = "strah"
            /\ i + 1 <= Len(s)
            /\ LowerChar(s[i + 1]) \in CyrBasic
         THEN RunEnd(s, i + 1, "cyr")
         ELSE 0

\* The end of a comment key starting at position i (0 if none starts there):
\* kamentar | comment , ignoring case.
CommentKeyEnd(s, i) ==
    IF LowerChar(s[i]) \in {"kamentar", "comment"} THEN i ELSE 0

\* The end of a key of the given kind starting at position i (0 if none).
KeyEnd(kind, s, i) ==
    IF kind = "insurer" THEN InsurerKeyEnd(s, i) ELSE CommentKeyEnd(s, i)

\* The group of the leftmost match of <key>\s*[=:]\s*(.+), stripped, for
\* the keys of the given kind.
KeyedRest(s, kind) ==
    LET ok(i) == /\ KeyEnd(kind, s, i) # 0
                 /\ KvValueStart(s, KeyEnd(kind, s, i)) \in 1..Len(s)
        starts == {i \in 1..Len(s) : ok(i)}
    IN  IF starts = {} THEN None
        ELSE Strip(SubSeq(s, KvValueStart(s, KeyEnd(kind, s, SetMin(starts))),
                          Len(s)))

_extract_insurer(message) == KeyedRest(message, "insurer")

\* _extract_description: (?:kamentar|comment)\s*[:=]\s*(.+)
_extract_description(message) == KeyedRest(message, "comment")

\* _extract_record_id: numero\s*(\d+), else the first \b(\d{3,})\b.
_extract_record_id(message) ==
    LET ok(i) == /\ message[i] = "#"
                 /\ SkipSpaces(message, i + 1) <= Len(message)
                 /\ IsDigit(message[SkipSpaces(message, i + 1)])
        starts == {i \in 1..Len(message) : ok(i)}
    IN  IF starts # {}
        THEN LET k == SkipSpaces(message, SetMin(starts) + 1)
             IN  SubSeq(message, k, RunEnd(message, k, "digit"))
        ELSE FirstLongNumber(message)

\* re.findall(r"\d{2}\.\d{2}\.\d{4}", lower) scanning from position i.
RECURSIVE FindDates(_, _)
FindDates(s, i) ==
    LET isDate == /\ i + 9 <= Len(s)
                  /\ \A k \in {0, 1, 3, 4, 6, 7, 8, 9} : IsDigit(s[i + k])
                  /\ s[i + 2] = "." /\ s[i + 5] = "."
    IN  IF i > Len(s) THEN <<>>
        ELSE IF isDate THEN <<SubSeq(s, i, i + 9)>> \o FindDates(s, i + 10)
        ELSE FindDates(s, i + 1)

\* _extract_date_range returning the first and the last date found.
_extract_date_range_FirstLast(lower) ==
    LET dates == FindDates(lower, 1)
    IN  IF Len(dates) >= 2 THEN <<dates[1], dates[Len(dates)]>>
        ELSE IF Len(dates) = 1 THEN <<dates[1], dates[1]>>
        ELSE <<None, None>>

\* _extract_date_range: the pair (date_start, date_end).
_extract_date_range(lower) ==
    LET dates == FindDates(lower, 1)
    IN  IF Len(dates) >= 2 THEN <<dates[1], dates[2]>>
        ELSE IF Len(dates) = 1 THEN <<dates[1], dates[1]>>
        ELSE <<None, None>>

\* The path of _maybe_handle_har: re.search(r"([\w./\\-]+\.har)", message,
\* IGNORECASE), leftmost start and longest match, or None.
HarPath(message) ==
    LET ends(i) == {e \in (i + 2)..Len(message) :
                       /\ LowerChar(message[e]) = "har"
                       /\ message[e - 1] = "."
                       /\ \A k \in i..e : IsPathChar(message[k])}
        starts == {i \in 1..Len(message) : ends(i) # {}}
    IN  IF starts = {} THEN None
        ELSE SubSeq(message, SetMin(starts), SetMax(ends(SetMin(starts))))

_is_cancel_request(lower) ==
    Contains(lower, <<"admiani">>) \/ Contains(lower, <<"skasuj">>)

_is_list_request(lower) ==
    \/ Contains(lower, <<"jakija">>) /\ Contains(lower, <<"zapis">>)
    \/ Contains(lower, <<"pakazhy">>) /\ Contains(lower, <<"zapis">>)

_is_create_request(lower) ==
    \/ Contains(lower, <<"zapis", "ac">>)
    \/ Contains(lower, <<"stvary", " ", "zapis">>)
    \/ Contains(lower, <<"zapis", " ", "da">>)

\* any(word in lower for word in [tak, pacvjardzhaju, ok, dobra])
_is_confirmation(lower) ==
    \E word \in {<<"tak">>, <<"pacvjardzhaju">>, <<"ok">>, <<"dobra">>} :
        Contains(lower, word)

\* The test of the confirm stage: "admena" in lower or "ne" in lower.
IsNegative(lower) == Contains(lower, <<"admena">>) \/ Contains(lower, <<"ne">>)


(***************************************************************************)
(* The conversation state and the environment.                             *)
(***************************************************************************)

VARIABLES
    state,   \* self.state : AgentState
    tools,   \* self.tools : the names of the registered tools
    msg,     \* the argument of the last handle_user_message call
    calls,   \* the tool calls made while that message was handled
    reply,   \* the str it returned (None if it raised)
    raised,  \* whether it let an exception escape
    pre,     \* self.state when that call began
    client,  \* a call of a function of amedis_client.py: name, input, result
    listings \* the last answered doctors, services and schedule calls

vars == <<state, tools, msg, calls, reply, raised, pre, client, listings>>

\* No function of amedis_client.py has been called.
NoCall == [fn |-> "none", done |-> FALSE]

\* The largest number of slots one schedule answer carries.
MaxSlots == 2

\* The largest number of characters of a raw duration that is a str.
MaxText == 3

\* The largest number of elements of a list of doctors, of directions or of
\* the entries of a HAR file.
MaxItems == 3

AllTools ==
    {"directions", "doctors", "services", "schedule", "create_record",
     "list_records", "cancel_record", "har_autofill"}

\* The tools that talk to the booking backend.
DomainTools == AllTools \ {"har_autofill"}

\* The stages of the create flow, in the order the flow walks them.
Stages ==
    <<"choose_direction", "choose_doctor", "choose_service", "date_range",
      "pick_slot", "confirm">>

\* AgentState(): every field at its default.
AgentState ==
    [token |-> None, patient_id |-> None, insurer |-> None,
     direction_id |-> None, doctor_id |-> None, service_id |-> None,
     description |-> None, slot |-> NoneObj, goal |-> NoName, stage |-> NoName,
     last_directions |-> <<>>, last_doctors |-> <<>>, last_services |-> <<>>,
     last_slots |-> <<>>, last_records |-> <<>>]

\* AgentState.reset in the place of reset_flow: every field is reset.
reset_flow_AllFields(st) ==
    [token |-> None, patient_id |-> None, insurer |-> None,
     direction_id |-> None, doctor_id |-> None, service_id |-> None,
     description |-> None, slot |-> NoneObj, goal |-> NoName, stage |-> NoName,
     last_directions |-> <<>>, last_doctors |-> <<>>, last_services |-> <<>>,
     last_slots |-> <<>>, last_records |-> <<>>]

\* AgentState.reset_flow
reset_flow(st) ==
    [st EXCEPT !.direction_id = None, !.doctor_id = None, !.service_id = None,
               !.description = None, !.slot = NoneObj, !.goal = NoName,
               !.stage = NoName, !.last_directions = <<>>,
               !.last_doctors = <<>>, !.last_services = <<>>,
               !.last_slots = <<>>]

\* The text of the number k < 10.
NumText(k) == <<CHOOSE c \in Digits : DigitVal[c] = k>>

D1 == <<"0", "1", ".", "0", "6", ".", "2", "0", "2", "4">>
D2 == <<"0", "7", ".", "0", "6", ".", "2", "0", "2", "4">>
D3 == <<"0", "9", ".", "0", "6", ".", "2", "0", "2", "4">>

\* The k-th slot of a schedule answer whose start times are written in the
\* format fmt: "iso" is 2024-01-0k 09:00 (with an end time and a raw
\* payload: the first slot's supplies serviceId and a key the program does
\* not know, the others' supply directionId), "dmy" is 0(k+1).06.2024 10:00 (no end time, no raw payload).
SlotItem(fmt, k) ==
    IF fmt = "iso"
    THEN [startAt |-> <<"2", "0", "2", "4", "-", "0", "1", "-", "0">>
                      \o NumText(k) \o <<" ", "0", "9", ":", "0", "0">>,
          endAt |-> <<"2", "0", "2", "4", "-", "0", "1", "-", "0">>
                    \o NumText(k) \o <<" ", "0", "9", ":", "3", "0">>,
          raw |-> IF k = 1
                  THEN [officeId |-> <<"7">>, cabinetId |-> <<>>,
                        serviceId |-> <<"8">>, price |-> <<"5">>]
                  ELSE [officeId |-> <<"7">>, directionId |-> <<"3">>,
                        serviceId |-> <<>>, office |-> None]]
    ELSE [startAt |-> <<"0">> \o NumText(k + 1)
                      \o <<".", "0", "6", ".", "2", "0", "2", "4", " ",
                           "1", "0", ":", "0", "0">>,
          endAt |-> None,
          raw |-> NoneObj]

SlotFormats == {"iso", "dmy"}

\* What a call of the tool named t can do: answer with a value (exc = None)
\* or raise an exception whose text is exc.
Outcomes(t) ==
    LET ans(V) == {[tool |-> t, exc |-> None, val |-> v] : v \in V}
        boom == {[tool |-> t, exc |-> <<"boom">>, val |-> <<>>]}
    IN  CASE t = "none" -> {[tool |-> t, exc |-> None, val |-> <<>>]}
          [] t = "directions" ->
                boom \cup ans({<<>>,
                    <<[id |-> <<"1">>, name |-> <<"Kardio">>],
                      [id |-> <<"2">>, name |-> None]>>})
          [] t = "doctors" ->
                boom \cup ans({<<>>,
                    <<[id |-> <<"1">>, name |-> <<"Ivanou">>],
                      [id |-> <<"2">>, name |-> <<>>]>>})
          [] t = "services" ->
                boom \cup ans({<<>>,
                    <<[id |-> <<"1">>, name |-> <<"Uzi">>]>>})
          [] t = "schedule" ->
                boom
                \cup {[tool |-> t, val |-> <<>>,
                       exc |-> <<"sloty ", "ne", " ", "znojdzeny">>]}
                \cup ans({[k \in 1..n |-> SlotItem(fmt, k)] :
                             fmt \in SlotFormats, n \in 0..MaxSlots})
          [] t = "create_record" ->
                boom \cup ans(
                    {[status_code |-> 200, error |-> None,
                      data |-> [recordId |-> <<"9">>]],
                     [status_code |-> 200, error |-> <<"slot_taken">>,
                      data |-> NoneObj],
                     [status_code |-> 400, error |-> <<"slot_taken">>,
                      data |-> NoneObj],
                     [status_code |-> 400, error |-> <<>>, data |-> NoneObj]})
          [] t = "list_records" ->
                boom \cup ans({<<>>,
                    <<[recordId |-> <<"5">>, startAt |-> None,
                       status |-> None]>>})
          [] t = "cancel_record" ->
                boom \cup ans({[status_code |-> 200], [status_code |-> 400]})
          [] t = "har_autofill" ->
                boom \cup ans(
                    {[patient_ids |-> p, insurer_guess |-> g,
                      record_fields |-> IF g = None THEN <<>>
                                        ELSE <<<<"Ins_name">>>>] :
                        p \in {<<>>, <<<<"1", "2", "3">>>>},
                        g \in {None, <<"bel">>}})

\* What handling a message gives: the new state, the tool calls made, the
\* reply, whether an exception escaped.  When the handler calls a tool that
\* the environment's outcome o is not about, ok is FALSE and want names the
\* tool whose outcome is needed.
Ret(st, c, r) ==
    [st |-> st, calls |-> c, reply |-> r, raised |-> FALSE, ok |-> TRUE,
     want |-> "none"]

NeedOutcome(st, name) == [Ret(st, <<>>, <<>>) EXCEPT !.ok = FALSE, !.want = name]

\* "\n".join(lines)
RECURSIVE JoinLines(_)
JoinLines(lines) ==
    IF lines = <<>> THEN <<>>
    ELSE IF Len(lines) = 1 THEN lines[1]
    ELSE lines[1] \o <<"\n">> \o JoinLines(Tail(lines))

\* tool = self.tools.get(name); if not tool: return <unavailable>;
\* try: output = tool.call(<args>)  except Exception as exc: return
\* <errPrefix>{exc};  otherwise go on as then, what the handler does with
\* the output o.val.
CallTool(st, name, args, o, unavailable, errPrefix, then) ==
    LET call == [tool |-> name, args |-> args, exc |-> o.exc, val |-> o.val]
    IN  IF name \notin tools THEN Ret(st, <<>>, unavailable)
        ELSE IF o.tool # name THEN NeedOutcome(st, name)
        ELSE IF o.exc # None THEN Ret(st, <<call>>, errPrefix \o o.exc)
        ELSE [then EXCEPT !.calls = <<call>>]


(***************************************************************************)
(* The handlers of AmedisOnlineAgent.  Each takes the state st it starts   *)
(* from and the outcome o of the tool call it may make.                    *)
(***************************************************************************)

_handle_list_records(st, o) ==
    CallTool(st, "list_records",
             [token |-> Or(st.token, <<>>), patient_id |-> Or(st.patient_id, <<>>)],
             o,
             <<"Instrument dlja spisu zapisau nedastupny.">>,
             <<"Ne atrymalasja atrymac spis zapisau (">>,
             LET records == o.val IN
                Ret([st EXCEPT !.last_records = records], <<>>,
                    IF records = <<>>
                    THEN <<"U vashym kabinece njama buduchyh zapisau.">>
                    ELSE JoinLines(
                           <<<<"Vashy zapisy:">>>>
                           \o [i \in 1..Len(records) |-> records[i].recordId]
                           \o <<<<"Kali patrebna admjanic zapis ...">>>>)))

\* _handle_cancel taking the request as the end of the booking in progress
\* too: the flow is reset before the record is cancelled.
_handle_cancel_AbortsFlow(st, message, o) ==
    LET record_id == _extract_record_id(message)
    IN  IF ~Truthy(record_id)
        THEN Ret(reset_flow(st), <<>>, <<"Kali laska, paznachce numar zapisu.">>)
        ELSE CallTool(reset_flow(st), "cancel_record",
                 [token |-> Or(st.token, <<>>), record_id |-> record_id,
                  cancel_status |-> <<"CAN">>],
                 o,
                 <<"Instrument dlja admeny zapisu nedastupny.">>,
                 <<"Ne atrymalasja admjanic zapis (">>,
                 LET output == o.val IN
                    Ret(reset_flow(st), <<>>,
                        IF output.status_code # 200
                        THEN <<"Backend ne pacverdziu admenu.">>
                        ELSE <<"Zapis #">> \o record_id
                             \o <<" adznachany jak admeneny.">>))

_handle_cancel(st, message, o) ==
    LET record_id == _extract_record_id(message)
    IN  IF ~Truthy(record_id)
        THEN Ret(st, <<>>, <<"Kali laska, paznachce numar zapisu.">>)
        ELSE CallTool(st, "cancel_record",
                 [token |-> Or(st.token, <<>>), record_id |-> record_id,
                  cancel_status |-> <<"CAN">>],
                 o,
                 <<"Instrument dlja admeny zapisu nedastupny.">>,
                 <<"Ne atrymalasja admjanic zapis (">>,
                 LET output == o.val IN
                    Ret(st, <<>>,
                        IF output.status_code # 200
                        THEN <<"Backend ne pacverdziu admenu.">>
                        ELSE <<"Zapis #">> \o record_id
                             \o <<" adznachany jak admeneny.">>))

_handle_show_directions(st, o) ==
    CallTool(st, "directions", [token |-> Or(st.token, <<>>)], o,
             <<"Instrument napramkau nedastupny.">>,
             <<"Ne atrymalasja atrymac napramki: ">>,
             LET directions == o.val IN
                Ret([st EXCEPT !.last_directions = directions], <<>>,
                    IF directions = <<>>
                    THEN <<"Napramki ", "ne", " ", "znojdzeny", ". Praverce token.">>
                    ELSE JoinLines(
                           <<<<"Dastupnyja napramki:">>>>
                           \o [i \in 1..Len(directions) |->
                                 directions[i].id
                                 \o Or(directions[i].name, <<>>)])))

\* str(self.state.last_directions[0].get("id")) or None
_guess_direction_from_last(st) ==
    IF st.last_directions # <<>> THEN st.last_directions[1].id ELSE None

_handle_show_doctors(st, o) ==
    IF ~Truthy(st.direction_id) /\ st.last_directions = <<>>
    THEN LET hint == _handle_show_directions(st, o)
         IN  [hint EXCEPT !.reply = @ \o <<"\n", "Paslja abjaryce ID napramku.">>]
    ELSE CallTool(st, "doctors",
             [token |-> Or(st.token, <<>>),
              direction_id |-> Or(st.direction_id, _guess_direction_from_last(st))],
             o,
             <<"Instrument doktarau nedastupny.">>,
             <<"Ne atrymalasja atrymac doktarau: ">>,
             LET doctors == o.val IN
                Ret([st EXCEPT !.last_doctors = doctors], <<>>,
                    IF doctors = <<>>
                    THEN <<"Pa hetym napramku doktary ", "ne", " ", "znojdzeny", ".">>
                    ELSE JoinLines(
                           <<<<"Dastupnyja doktary:">>>>
                           \o [i \in 1..Len(doctors) |->
                                 doctors[i].id
                                 \o Or(doctors[i].name, <<"bez imja">>)])))

_handle_show_services(st, o) ==
    IF ~Truthy(st.direction_id) /\ st.last_directions = <<>>
    THEN LET hint == _handle_show_directions(st, o)
         IN  [hint EXCEPT !.reply = @ \o <<"\n", "Abjaryce napramak.">>]
    ELSE CallTool(st, "services",
             [token |-> Or(st.token, <<>>),
              direction_id |-> Or(st.direction_id, _guess_direction_from_last(st))],
             o,
             <<"Instrument paslug nedastupny.">>,
             <<"Ne atrymalasja atrymac paslugi: ">>,
             LET services == o.val IN
                Ret([st EXCEPT !.last_services = services], <<>>,
                    IF services = <<>>
                    THEN <<"Paslugi dlja hetaha napramku ", "ne", " ", "znojdzeny", ".">>
                    ELSE JoinLines(
                           <<<<"Dastupnyja paslugi:">>>>
                           \o [i \in 1..Len(services) |->
                                 services[i].id
                                 \o Or(services[i].name, <<"bez nazvy">>)])))

\* "<startAt>" or "<startAt> -- <endAt>"
SlotLabel(slot) ==
    slot.startAt \o (IF Truthy(slot.endAt) THEN <<" -- ">> \o slot.endAt ELSE <<>>)

_handle_show_slots(st) ==
    IF ~Truthy(st.doctor_id) \/ ~Truthy(st.service_id)
    THEN Ret(st, <<>>, <<"Spachatku vyberyce doktara i paslugu.">>)
    ELSE IF st.last_slots = <<>>
    THEN Ret(st, <<>>, <<"Patrebna pavedamic peryjad dat.">>)
    ELSE Ret(st, <<>>,
             JoinLines(<<<<"Aposhnija atrymanyja sloty:">>>>
                       \o [i \in 1..Len(st.last_slots) |->
                             NumText(i) \o <<". ">> \o SlotLabel(st.last_slots[i])]))

\* _begin_create_flow keeping the slot and the slots of an earlier flow.
_begin_create_flow_KeepsSlots(st) ==
    [st EXCEPT !.goal = "create_record", !.stage = "choose_direction",
               !.direction_id = None, !.doctor_id = None, !.service_id = None,
               !.description = None]

_begin_create_flow(st) ==
    [st EXCEPT !.goal = "create_record", !.stage = "choose_direction",
               !.direction_id = None, !.doctor_id = None, !.service_id = None,
               !.slot = NoneObj, !.description = None, !.last_slots = <<>>]

_fetch_slots(st, date_start, date_end, o) ==
    CallTool(st, "schedule",
             [token |-> Or(st.token, <<>>), doctor_id |-> Or(st.doctor_id, <<>>),
              service_id |-> st.service_id, date_start |-> date_start,
              date_end |-> date_end],
             o,
             <<"Instrument dlja raskladu nedastupny.">>,
             <<"Ne", " ", "atrymalasja atrymac sloty: ">>,
             LET slots == o.val IN
                Ret([st EXCEPT !.last_slots = slots], <<>>,
                    IF slots = <<>>
                    THEN <<"Volnyja sloty ", "ne", " ", "znojdzeny",
                           " u hetym dyjapazone.">>
                    ELSE JoinLines(
                           <<<<"Znojdzenyja sloty:">>>>
                           \o [i \in 1..Len(slots) |->
                                 NumText(i) \o <<". ">> \o SlotLabel(slots[i])])))

\* The keys _build_extra_from_slot copies from the slot's raw payload.
ExtraKeys ==
    {"officeId", "cabinetId", "serviceId", "directionId", "office", "cabinet"}

\* _build_extra_from_slot letting the selected service and direction
\* replace what the slot's payload supplies.
_build_extra_from_slot_StateFirst(st, slot) ==
    LET raw == IF slot.raw = NoneObj THEN <<>> ELSE slot.raw
        kept == {key \in ExtraKeys \cap DOMAIN raw : Truthy(raw[key])}
        svc == IF Truthy(st.service_id) THEN {"serviceId"} ELSE {}
        dir == IF Truthy(st.direction_id) THEN {"directionId"} ELSE {}
    IN  [key \in kept \cup svc \cup dir |->
            IF key \in svc THEN st.service_id
            ELSE IF key \in dir THEN st.direction_id
            ELSE raw[key]]

\* _build_extra_from_slot: a dict, as a function from its keys.
_build_extra_from_slot(st, slot) ==
    LET raw == IF slot.raw = NoneObj THEN <<>> ELSE slot.raw
        kept == {key \in ExtraKeys \cap DOMAIN raw : Truthy(raw[key])}
        svc == IF Truthy(st.service_id) /\ "serviceId" \notin kept
               THEN {"serviceId"} ELSE {}
        dir == IF Truthy(st.direction_id) /\ "directionId" \notin kept
               THEN {"directionId"} ELSE {}
    IN  [key \in kept \cup svc \cup dir |->
            IF key \in kept THEN raw[key]
            ELSE IF key = "serviceId" THEN st.service_id
            ELSE st.direction_id]

\* _finalize_record testing the status code only: an answer 200 that
\* carries an error counts as a created record.
_finalize_record_StatusOnly(st, o) ==
    IF ~(st.slot # NoneObj /\ Truthy(st.slot.startAt))
    THEN Ret(st, <<>>, <<"Ne vybrany slot dlja zapisu.">>)
    ELSE CallTool(st, "create_record",
             [token |-> Or(st.token, <<>>), doctor_id |-> Or(st.doctor_id, <<>>),
              patient_id |-> Or(st.patient_id, <<>>),
              startAt |-> st.slot.startAt, endAt |-> st.slot.endAt,
              description |-> Or(st.description, <<>>),
              insurer |-> Or(st.insurer, <<>>),
              extra |-> _build_extra_from_slot(st, st.slot)],
             o,
             <<"Instrument stvarennja zapisu nedastupny.">>,
             <<"Ne atrymalasja stvaryc zapis: ">>,
             LET output == o.val IN
                IF output.status_code # 200
                THEN Ret(st, <<>>, <<"Backend ne pacverdziu zapis.">>)
                ELSE Ret(reset_flow(st), <<>>, <<"Hatova! Zapis stvorany.">>))

_finalize_record(st, o) ==
    IF ~(st.slot # NoneObj /\ Truthy(st.slot.startAt))
    THEN Ret(st, <<>>, <<"Ne vybrany slot dlja zapisu.">>)
    ELSE CallTool(st, "create_record",
             [token |-> Or(st.token, <<>>), doctor_id |-> Or(st.doctor_id, <<>>),
              patient_id |-> Or(st.patient_id, <<>>),
              startAt |-> st.slot.startAt, endAt |-> st.slot.endAt,
              description |-> Or(st.description, <<>>),
              insurer |-> Or(st.insurer, <<>>),
              extra |-> _build_extra_from_slot(st, st.slot)],
             o,
             <<"Instrument stvarennja zapisu nedastupny.">>,
             <<"Ne atrymalasja stvaryc zapis: ">>,
             LET output == o.val IN
                IF output.status_code # 200 \/ Truthy(output.error)
                THEN Ret(st, <<>>, <<"Backend ne pacverdziu zapis.">>)
                ELSE Ret(reset_flow(st), <<>>,
                         IF output.data # NoneObj /\ Truthy(output.data.recordId)
                         THEN <<"Hatova! Zapis stvorany. Numar: ">>
                              \o output.data.recordId
                         ELSE <<"Hatova! Zapis stvorany, ale bez numara.">>))

\* _match_id_from_message: the id the message selects among items, or None.
_match_id_from_message(message, items) ==
    LET ids == {items[i].id : i \in {j \in 1..Len(items) : Truthy(items[j].id)}}
        number == FirstNumber(message)
        byName == {i \in 1..Len(items) :
                     /\ Lower(Or(items[i].name, <<>>)) # <<>>
                     /\ Contains(Lower(message), Lower(Or(items[i].name, <<>>)))}
    IN  IF items = <<>> THEN None
        ELSE IF number # None /\ number \in ids THEN number
        ELSE IF byName # {} THEN items[SetMin(byName)].id
        ELSE None

\* SlotSelection(startAt=raw.get("startAt"), endAt=raw.get("endAt"),
\*               raw=raw.get("raw", {}))
SlotSelection(raw) == [startAt |-> raw.startAt, endAt |-> raw.endAt, raw |-> raw.raw]

\* _match_slot_from_message taking the number as a 0-based index.
_match_slot_from_message_ZeroBased(st, message) ==
    LET number == FirstNumber(message)
        idx == ToInt(number)
    IN  IF st.last_slots = <<>> THEN NoneObj
        ELSE IF number # None /\ 0 <= idx /\ idx < Len(st.last_slots)
        THEN SlotSelection(st.last_slots[idx + 1])
        ELSE NoneObj

\* _match_slot_from_message: the slot the message selects, or None.
_match_slot_from_message(st, message) ==
    LET number == FirstNumber(message)
        idx == ToInt(number) - 1
        byStart == {i \in 1..Len(st.last_slots) :
                      /\ Lower(Or(st.last_slots[i].startAt, <<>>)) # <<>>
                      /\ Contains(Lower(message),
                                  Lower(Or(st.last_slots[i].startAt, <<>>)))}
    IN  IF st.last_slots = <<>> THEN NoneObj
        ELSE IF number # None /\ 0 <= idx /\ idx < Len(st.last_slots)
        THEN SlotSelection(st.last_slots[idx + 1])
        ELSE IF byStart # {} THEN SlotSelection(st.last_slots[SetMin(byStart)])
        ELSE NoneObj


\* ConfirmStage leaving the flow on a negative answer without reset_flow:
\* only goal and stage are unset.
ConfirmStage_LeavesFields(st, message, o) ==
    LET lower == Lower(message)
        insurer == _extract_insurer(message)
        st1 == IF Truthy(insurer) THEN [st EXCEPT !.insurer = insurer] ELSE st
        description == _extract_description(message)
        st2 == IF Truthy(description)
               THEN [st1 EXCEPT !.description = description] ELSE st1
    IN  IF _is_confirmation(lower) THEN _finalize_record(st2, o)
        ELSE IF IsNegative(lower)
        THEN Ret([st2 EXCEPT !.goal = NoName, !.stage = NoName], <<>>,
                 <<"Dobra, skasavala praces zapisu.">>)
        ELSE Ret(st2, <<>>, <<"Kali hatovy, skazhyce 'tak' abo 'admena'.">>)

\* The confirm stage of _handle_create_flow.
ConfirmStage(st, message, o) ==
    LET lower == Lower(message)
        insurer == _extract_insurer(message)
        st1 == IF Truthy(insurer) THEN [st EXCEPT !.insurer = insurer] ELSE st
        description == _extract_description(message)
        st2 == IF Truthy(description)
               THEN [st1 EXCEPT !.description = description] ELSE st1
    IN  IF _is_confirmation(lower) THEN _finalize_record(st2, o)
        ELSE IF IsNegative(lower)
        THEN Ret(reset_flow(st2), <<>>, <<"Dobra, skasavala praces zapisu.">>)
        ELSE Ret(st2, <<>>, <<"Kali hatovy, skazhyce 'tak' abo 'admena'.">>)

\* The date_range stage of _handle_create_flow.
DateRangeStage(st, message, o) ==
    LET range == _extract_date_range(Lower(message))
        fetched == _fetch_slots(st, range[1], range[2], o)
    IN  IF Truthy(range[1]) /\ Truthy(range[2])
        THEN IF Contains(Lower(fetched.reply), <<"ne", " ", "znojdzeny">>)
             THEN fetched
             ELSE [fetched EXCEPT !.st.stage = "pick_slot",
                                  !.reply = @ \o <<"\n", "Vyberyce slot.">>]
        ELSE Ret(st, <<>>, <<"Ne atrymalasja raspaznac daty.">>)

\* The choose_direction stage of _handle_create_flow.
ChooseDirectionStage(st, message, o) ==
    LET selected == _match_id_from_message(message, st.last_directions)
        shown == _handle_show_doctors(
                     [st EXCEPT !.direction_id = selected,
                                !.stage = "choose_doctor"], o)
        again == _handle_show_directions(st, o)
    IN  IF Truthy(selected)
        THEN [shown EXCEPT !.reply = <<"Napramak zafiksavany.", "\n">> \o @]
        ELSE [again EXCEPT !.reply = @ \o <<"\n", "Adpraucie ID napramku.">>]

\* ChooseServiceStage answering a message that names no service with the
\* list of doctors.
ChooseServiceStage_ShowsDoctors(st, message, o) ==
    LET selected == _match_id_from_message(message, st.last_services)
    IN  IF Truthy(selected)
        THEN Ret([st EXCEPT !.service_id = selected, !.stage = "date_range"],
                 <<>>, <<"Pasluga zafiksavanaja. Pakazhyce dyjapazon dat.">>)
        ELSE _handle_show_doctors(st, o)

\* The choose_service stage of _handle_create_flow.
ChooseServiceStage(st, message, o) ==
    LET selected == _match_id_from_message(message, st.last_services)
        again == _handle_show_services(st, o)
    IN  IF Truthy(selected)
        THEN Ret([st EXCEPT !.service_id = selected, !.stage = "date_range"],
                 <<>>, <<"Pasluga zafiksavanaja. Pakazhyce dyjapazon dat.">>)
        ELSE [again EXCEPT !.reply = @ \o <<"\n", "Adpraucie ID paslugi.">>]

\* ChooseDoctorStage without the return that ends it: the doctor is chosen
\* and the same message falls through to the choose_service branch.
ChooseDoctorStage_FallThrough(st, message, o) ==
    LET selected == _match_id_from_message(message, st.last_doctors)
    IN  IF Truthy(selected)
        THEN ChooseServiceStage([st EXCEPT !.doctor_id = selected,
                                           !.stage = "choose_service"],
                                message, o)
        ELSE _handle_show_doctors(st, o)

\* The choose_doctor stage of _handle_create_flow.
ChooseDoctorStage(st, message, o) ==
    LET selected == _match_id_from_message(message, st.last_doctors)
        shown == _handle_show_services(
                     [st EXCEPT !.doctor_id = selected,
                                !.stage = "choose_service"], o)
        again == _handle_show_doctors(st, o)
    IN  IF Truthy(selected)
        THEN [shown EXCEPT !.reply = <<"Doktar vybrany.", "\n">> \o @]
        ELSE [again EXCEPT !.reply = @ \o <<"\n", "Adpraucie ID doktara.">>]

\* The pick_slot stage of _handle_create_flow.
PickSlotStage(st, message) ==
    LET slot == _match_slot_from_message(st, message)
    IN  IF slot # NoneObj
        THEN Ret([st EXCEPT !.slot = slot, !.stage = "confirm"], <<>>,
                 <<"Slot zafiksavany. Pacverdzice.">>)
        ELSE Ret(st, <<>>, <<"Ne znajshla taki slot.">>)

_handle_create_flow(st, message, o) ==
    IF st.stage = "choose_direction" THEN ChooseDirectionStage(st, message, o)
    ELSE IF st.stage = "choose_doctor" THEN ChooseDoctorStage(st, message, o)
    ELSE IF st.stage = "choose_service" THEN ChooseServiceStage(st, message, o)
    ELSE IF st.stage = "date_range" THEN DateRangeStage(st, message, o)
    ELSE IF st.stage = "pick_slot" THEN PickSlotStage(st, message)
    ELSE IF st.stage = "confirm" THEN ConfirmStage(st, message, o)
    ELSE Ret(st, <<>>, <<"Ne mahu pracjahnuc. Pachnjom nanava.">>)

\* _maybe_handle_har for a message that names a .har file (har_path is not
\* None): the call of har_autofill is not inside a try.
_maybe_handle_har(st, har_path, o) ==
    IF "har_autofill" \notin tools
    THEN Ret(st, <<>>, <<"Ja ne mahu apracavac HAR bez instrumenta.">>)
    ELSE IF o.tool # "har_autofill" THEN NeedOutcome(st, "har_autofill")
    ELSE LET call == [tool |-> "har_autofill", args |-> [har_path |-> har_path],
                      exc |-> o.exc, val |-> o.val]
             output == o.val
             st1 == IF output.patient_ids # <<>>
                    THEN [st EXCEPT !.patient_id = output.patient_ids[1]] ELSE st
             st2 == IF Truthy(output.insurer_guess) /\ ~Truthy(st1.insurer)
                    THEN [st1 EXCEPT !.insurer = output.insurer_guess] ELSE st1
         IN  IF o.exc # None
             THEN [Ret(st, <<call>>, None) EXCEPT !.raised = TRUE]
             ELSE Ret(st2, <<call>>,
                      <<"Prajshla pa HAR-fajle.">>
                      \o JoinLines(output.patient_ids)
                      \o Or(output.insurer_guess, <<>>)
                      \o JoinLines(output.record_fields))

\* Dispatch beginning a flow on a create keyword only when none is in
\* progress.
Dispatch_NoRestartInFlow(st, message, o) ==
    LET lower == Lower(message)
        st1 == IF _is_create_request(lower) /\ st.goal # "create_record"
               THEN _begin_create_flow(st) ELSE st
    IN  IF _is_cancel_request(lower) THEN _handle_cancel(st, message, o)
        ELSE IF _is_list_request(lower) THEN _handle_list_records(st, o)
        ELSE IF st1.goal = "create_record" THEN _handle_create_flow(st1, message, o)
        ELSE IF Contains(lower, <<"napramk">>) \/ Contains(lower, <<"specyjal">>)
        THEN _handle_show_directions(st1, o)
        ELSE IF Contains(lower, <<"d", "ok", "tar">>) THEN _handle_show_doctors(st1, o)
        ELSE IF Contains(lower, <<"paslug">>) THEN _handle_show_services(st1, o)
        ELSE IF Contains(lower, <<"slot">>) \/ Contains(lower, <<"rasklad">>)
        THEN _handle_show_slots(st1)
        ELSE Ret(st1, <<>>, <<"Ja hatovaja dapamahchy.">>)

\* The dispatch of handle_user_message once the three gates are passed.
Dispatch(st, message, o) ==
    LET lower == Lower(message)
        st1 == IF _is_create_request(lower) THEN _begin_create_flow(st) ELSE st
    IN  IF _is_cancel_request(lower) THEN _handle_cancel(st, message, o)
        ELSE IF _is_list_request(lower) THEN _handle_list_records(st, o)
        ELSE IF st1.goal = "create_record" THEN _handle_create_flow(st1, message, o)
        ELSE IF Contains(lower, <<"napramk">>) \/ Contains(lower, <<"specyjal">>)
        THEN _handle_show_directions(st1, o)
        ELSE IF Contains(lower, <<"d", "ok", "tar">>) THEN _handle_show_doctors(st1, o)
        ELSE IF Contains(lower, <<"paslug">>) THEN _handle_show_services(st1, o)
        ELSE IF Contains(lower, <<"slot">>) \/ Contains(lower, <<"rasklad">>)
        THEN _handle_show_slots(st1)
        ELSE Ret(st1, <<>>, <<"Ja hatovaja dapamahchy.">>)

\* InsurerGate without its test: the message is dispatched whether or not
\* an insurer is known.
InsurerGate_NoCheck(st, message, o) == Dispatch(st, message, o)

\* The insurer gate of handle_user_message: a message that carries the
\* insurer passes the gate and is dispatched in the same call.
InsurerGate(st, message, o) ==
    LET insurer == _extract_insurer(message)
    IN  IF ~Truthy(st.insurer)
        THEN IF Truthy(insurer)
             THEN Dispatch([st EXCEPT !.insurer = insurer], message, o)
             ELSE Ret(st, <<>>, <<"Mne patrebnaja nazva strahoushchyka.">>)
        ELSE Dispatch(st, message, o)

\* The patient-id gate of handle_user_message.
PatientGate(st, message, o) ==
    LET patient_id == _extract_patient_id(message)
    IN  IF ~Truthy(st.patient_id)
        THEN IF Truthy(patient_id)
             THEN Ret([st EXCEPT !.patient_id = patient_id], <<>>,
                      <<"Adznachyla vash patientAPIId. Pavedamice strahoushchyka.">>)
             ELSE Ret(st, <<>>, <<"Kali laska, pavedamice patientAPIId.">>)
        ELSE InsurerGate(st, message, o)

\* TokenGate storing a patient id it finds while the token is still missing.
TokenGate_TakesPatient(st, message, o) ==
    LET token == _extract_token(message)
        patient_id == _extract_patient_id(message)
    IN  IF ~Truthy(st.token)
        THEN IF Truthy(token)
             THEN Ret([st EXCEPT !.token = token], <<>>,
                      <<"Dzjakuj, token atrymany. Cjaper patrebny patientAPIId.">>)
             ELSE IF Truthy(patient_id)
             THEN Ret([st EXCEPT !.patient_id = patient_id], <<>>,
                      <<"Adznachyla vash patientAPIId.">>)
             ELSE Ret(st, <<>>, <<"Persh za use mne patrebny vash token.">>)
        ELSE PatientGate(st, message, o)

\* The token gate of handle_user_message.
TokenGate(st, message, o) ==
    LET token == _extract_token(message)
    IN  IF ~Truthy(st.token)
        THEN IF Truthy(token)
             THEN Ret([st EXCEPT !.token = token], <<>>,
                      <<"Dzjakuj, token atrymany. Cjaper patrebny patientAPIId.">>)
             ELSE Ret(st, <<>>, <<"Persh za use mne patrebny vash token.">>)
        ELSE PatientGate(st, message, o)

handle_user_message(st, text, o) ==
    LET message == Strip(text)
    IN  IF message = <<>>
        THEN Ret(st, <<>>, <<"Kali laska, pavedamice, chym ja mahu dapamahchy.">>)
        ELSE IF HarPath(message) # None
        THEN _maybe_handle_har(st, HarPath(message), o)
        ELSE TokenGate(st, message, o)

(***************************************************************************)
(* The messages a user sends, and the state machine.                       *)
(***************************************************************************)

Messages ==
    {<<>>, <<" ">>,
     \* the gates
     <<"token", " ", "=", " ", "abcdefghijklmnopqrstuvwxyz">>,
     <<"abcdefghijklmnopqrstuvwxyz">>,
     <<"1", "2", "3">>, <<"patient", "=", "1", "2", "3">>,
     <<"insurer", "=", "bel">>,
     <<"strah", "o", "w", "ka", " ", "=", " ", "bel">>,
     <<"napramk", "i", " ", "insurer", "=", "bel">>,
     <<"f", ".", "har">>,
     \* intents
     <<"zapis", "ac", "ca">>, <<"zapis", "ac", "ca", " ", "1">>,
     <<"tak", " ", "zapis", "ac", "ca">>,
     <<"admiani", " ", "#", "5">>, <<"admiani">>,
     <<"pakazhy", " ", "zapis", "y">>,
     <<"pakazhy", " ", "jak", " ", "zapis", "ac", "ca">>,
     <<"napramk", "i">>, <<"d", "ok", "tar">>, <<"paslug", "i">>,
     <<"slot", "y">>,
     \* names and dates
     <<"kardio">>, <<"ivanou">>, <<"uzi">>,
     D1, D1 \o <<" ", "-", " ">> \o D2, D1 \o <<" ">> \o D2 \o <<" ">> \o D3,
     \* confirmation
     <<"tak">>, <<"ne">>, <<"admena">>, <<"ne", " ", "tak">>,
     <<"tak", " ", "insurer", "=", "med">>,
     <<"ne", " ", "insurer", "=", "med">>,
     <<"comment", ":", " ", "zz">>, <<"pryvitanne">>}
    \cup {NumText(k) : k \in 0..(MaxSlots + 1)}
    \cup {SlotItem(fmt, k).startAt : fmt \in SlotFormats, k \in 1..MaxSlots}

\* The tool sets an agent is built with: build_agent() registers every
\* tool, AmedisOnlineAgent() none; one agent lacks the schedule tool.
ToolConfigs == {AllTools, AllTools \ {"schedule"}, {}}

\* The message reaches the test of the create keywords and passes it:
\* it is not empty, names no HAR file, the three gates are passed (the
\* insurer possibly by this message), it is no cancel and no list request.
BeginsFlow(st, text) ==
    LET message == Strip(text)
        lower == Lower(message)
    IN  /\ message # <<>>
        /\ HarPath(message) = None
        /\ Truthy(st.token) /\ Truthy(st.patient_id)
        /\ Truthy(st.insurer) \/ Truthy(_extract_insurer(message))
        /\ ~_is_cancel_request(lower)
        /\ ~_is_list_request(lower)
        /\ _is_create_request(lower)

\* No call of the tool has been answered.
NoFetch == [doctors |-> NoneObj, services |-> NoneObj, schedule |-> NoneObj]

\* The history of the listings after a message that made the calls made
\* and left the state st: the arguments and the answer of the doctors call
\* that st.last_doctors was assigned from, of the services call that
\* st.last_services was assigned from (none once reset_flow has emptied the
\* list), and of the last schedule call that returned since the create
\* flow in progress began (none when no flow is in progress).
Fetched(old, made, begins, st) ==
    LET answered(t) == {i \in 1..Len(made) : made[i].tool = t /\ made[i].exc = None}
        last(t) == made[SetMax(answered(t))]
    IN  [doctors |-> IF answered("doctors") # {}
                     THEN [direction_id |-> last("doctors").args.direction_id,
                           val |-> last("doctors").val]
                     ELSE IF st.last_doctors = <<>> THEN NoneObj
                     ELSE old.doctors,
         services |-> IF answered("services") # {}
                      THEN [direction_id |-> last("services").args.direction_id,
                            val |-> last("services").val]
                      ELSE IF st.last_services = <<>> THEN NoneObj
                      ELSE old.services,
         schedule |-> IF answered("schedule") # {}
                      THEN [doctor_id |-> last("schedule").args.doctor_id,
                            service_id |-> last("schedule").args.service_id,
                            val |-> last("schedule").val]
                      ELSE IF begins \/ st.goal # "create_record" THEN NoneObj
                      ELSE old.schedule]

Init ==
    /\ state = AgentState
    /\ tools \in ToolConfigs
    /\ msg = None
    /\ calls = <<>>
    /\ reply = None
    /\ raised = FALSE
    /\ pre = AgentState
    /\ client = NoCall
    /\ listings = NoFetch

\* agent.handle_user_message(text): the agent is idle (msg = None), the
\* caller passes text, the tool the handler calls (if any) does o, and the
\* call returns or raises.
HandleUserMessage ==
    /\ msg = None
    /\ \E text \in Messages :
        \E probe \in {handle_user_message(state, text,
                           CHOOSE o \in Outcomes("none") : TRUE)} :
        \E o \in Outcomes(probe.want) :
        \E r \in {IF probe.ok THEN probe
                  ELSE handle_user_message(state, text, o)} :
            /\ state' = r.st
            /\ msg' = text
            /\ calls' = r.calls
            /\ reply' = r.reply
            /\ raised' = r.raised
            /\ pre' = state
            /\ listings' = Fetched(listings, r.calls, BeginsFlow(state, text), r.st)
            /\ UNCHANGED <<tools, client>>

\* The caller takes the reply (or the exception): the agent is idle again.
Deliver ==
    /\ msg # None
    /\ msg' = None
    /\ calls' = <<>>
    /\ reply' = None
    /\ raised' = FALSE
    /\ pre' = state
    /\ UNCHANGED <<state, tools, client, listings>>

\* agent.reset(), between two messages.
Reset ==
    /\ msg = None
    /\ state' = AgentState
    /\ pre' = AgentState
    /\ listings' = NoFetch
    /\ UNCHANGED <<tools, msg, calls, reply, raised, client>>

Next == HandleUserMessage \/ Deliver \/ Reset

Spec == Init /\ [][Next]_vars


(***************************************************************************)
(* amedis_client.py.  A JSON value is a tagged record J(t, v): null, num,  *)
(* str (a text), list (a sequence of values) or dict (the sequence of its  *)
(* key/value pairs, in insertion order as Python keeps them, keys          *)
(* distinct).                                                              *)
(***************************************************************************)

J(t, v) == [t |-> t, v |-> v]

JNull == J("null", 0)

\* One item of a dict.
KV(k, v) == [k |-> k, v |-> v]

\* Python truth value of a JSON value.
JTruthy(x) ==
    CASE x.t = "null" -> FALSE
      [] x.t = "num" -> x.v # 0
      [] OTHER -> x.v # <<>>

\* Python `x or d`.
JOr(x, d) == IF JTruthy(x) THEN x ELSE d

\* dict.get(key): None when the key is missing.
JGet(d, key) ==
    LET I == {i \in 1..Len(d.v) : d.v[i].k = key}
    IN IF I = {} THEN JNull ELSE d.v[CHOOSE i \in I : TRUE].v

\* ENDPOINTS["directions_candidates"]
directions_candidates ==
    <<"/directions", "/direction", "/directions/all", "/direction/all",
      "/getDirections", "/records/directions">>

\* What curl does for one request: subprocess.check_output raises (exc), or
\* a ResponseShim(status_code, text) comes back; body is json.loads(text),
\* NotJson when json.loads raises.
NotJson == J("notjson", 0)

ResponseShim(status_code, text, body) ==
    [exc |-> FALSE, status_code |-> status_code, text |-> text, body |-> body]

CalledProcessError == [exc |-> TRUE, status_code |-> 0, text |-> <<>>, body |-> NotJson]

_safe_json(resp) ==
    IF resp.body # NotJson THEN resp.body
    ELSE J("dict", <<[k |-> "raw", v |-> J("str", resp.text)]>>)

\* The loop of _normalize_directions over the elements of a list.
RECURSIVE DirectionRows(_)
DirectionRows(items) ==
    IF items = <<>> THEN <<>>
    ELSE LET item == Head(items)
             id == JOr(JGet(item, "id"), JOr(JGet(item, "idDirection"),
                       JOr(JGet(item, "Id"), JGet(item, "ID"))))
             name == JOr(JGet(item, "name"), JOr(JGet(item, "title"),
                         JOr(JGet(item, "Name"), JOr(JGet(item, "Title"),
                             JGet(item, "direction")))))
             direction == J("dict", <<[k |-> "id", v |-> id],
                                      [k |-> "name", v |-> name]>>)
         IN IF item.t = "dict" /\ direction.v[1].v # JNull
            THEN <<direction>> \o DirectionRows(Tail(items))
            ELSE DirectionRows(Tail(items))

_normalize_directions(data) ==
    IF data.t = "list" THEN DirectionRows(data.v)
    ELSE IF data.t = "dict"
    THEN LET keys == <<"directions", "items", "data", "result">>
             K == {i \in 1..Len(keys) : JGet(data, keys[i]).t = "list"}
         IN IF K = {} THEN <<>>
            ELSE DirectionRows(JGet(data, keys[SetMin(K)]).v)
    ELSE <<>>

\* The body of the loop of discover_directions for the answer o of one
\* endpoint: the rows it would return, <<>> to go on with the next endpoint.
DirectionsVia_AnyStatus(o) ==
    IF o.exc THEN <<>> ELSE _normalize_directions(_safe_json(o))

DirectionsVia(o) ==
    IF o.exc THEN <<>>
    ELSE IF o.status_code = 200 THEN _normalize_directions(_safe_json(o))
    ELSE <<>>

\* discover_directions from the i-th candidate on; http[endpoint] is what
\* the request to that endpoint does, probed the endpoints requested so far.
RECURSIVE discover_directions_from(_, _, _)
discover_directions_from(http, i, probed) ==
    IF i > Len(directions_candidates)
    THEN [endpoint |-> "", rows |-> <<>>,
          message |-> <<"Ne atrymalasia ... Uvjadzice ID napramku uruchnuju.">>,
          probed |-> probed, raised |-> FALSE]
    ELSE LET endpoint == directions_candidates[i]
             rows == DirectionsVia(http[endpoint])
         IN IF rows # <<>>
            THEN [endpoint |-> endpoint, rows |-> rows,
                  message |-> <<"OK via ", endpoint>>,
                  probed |-> Append(probed, endpoint), raised |-> FALSE]
            ELSE discover_directions_from(http, i + 1, Append(probed, endpoint))

discover_directions(http) == discover_directions_from(http, 1, <<>>)

\* str(x) of a number or a str.
PyStr(x) == IF x.t = "num" THEN J("str", NumText(x.v)) ELSE x

\* data[key] = value on a dict.
JSet(d, key, value) ==
    IF \E i \in 1..Len(d.v) : d.v[i].k = key
    THEN J("dict", [i \in 1..Len(d.v) |->
                       IF d.v[i].k = key THEN [k |-> key, v |-> value] ELSE d.v[i]])
    ELSE J("dict", Append(d.v, [k |-> key, v |-> value]))

\* response.text[:800]; the text of a body that is not JSON is one
\* character a symbol.
ErrorTextLimit == 800

Truncated(text) ==
    IF Len(text) <= ErrorTextLimit THEN text ELSE SubSeq(text, 1, ErrorTextLimit)

\* The test of create_record on the value of an extra field.
IsFormValue_NotNone(value) == value # JNull

IsFormValue(value) == value # JNull /\ value # J("str", <<>>)

\* The loop of create_record over extra.items().
RECURSIVE AddExtra(_, _)
AddExtra(data, items) ==
    IF items = <<>> THEN data
    ELSE AddExtra(IF IsFormValue(Head(items).v)
                  THEN JSet(data, Head(items).k, Head(items).v)
                  ELSE data,
                  Tail(items))

\* create_record(a.token, ..., a.insurer, extra) when the POST does o.
create_record(a, extra, o) ==
    LET base == J("dict",
                  <<[k |-> "token", v |-> a.token],
                    [k |-> "doctor", v |-> PyStr(a.doctor_id)],
                    [k |-> "patient", v |-> PyStr(a.patient_id)],
                    [k |-> "startAt", v |-> a.start_at],
                    [k |-> "endAt", v |-> JOr(a.end_at, J("str", <<>>))],
                    [k |-> "description", v |-> a.description],
                    [k |-> "Ins_name", v |-> a.insurer]>>)
        data == IF JTruthy(extra) THEN AddExtra(base, extra.v) ELSE base
    IN IF o.exc THEN [raised |-> TRUE, ret |-> JNull, posted |-> data]
       ELSE IF o.status_code # 200
       THEN [raised |-> FALSE, posted |-> data,
             ret |-> J("dict",
                 <<[k |-> "status_code", v |-> J("num", o.status_code)],
                   [k |-> "error",
                    v |-> IF o.body # NotJson THEN o.body
                          ELSE J("str", Truncated(o.text))],
                   [k |-> "sent", v |-> data]>>)]
       ELSE [raised |-> FALSE, posted |-> data,
             ret |-> J("dict",
                 <<[k |-> "status_code", v |-> J("num", o.status_code)],
                   [k |-> "data", v |-> _safe_json(o)],
                   [k |-> "sent", v |-> data]>>)]

\* The loop of _normalize_services over the elements of a list.
RECURSIVE ServiceRows(_)
ServiceRows(items) ==
    IF items = <<>> THEN <<>>
    ELSE LET item == Head(items)
             row == J("dict",
                 <<KV("id", JOr(JGet(item, "id"),
                                JOr(JGet(item, "serviceId"), JGet(item, "Id")))),
                   KV("name", JOr(JGet(item, "name"),
                                  JOr(JGet(item, "serviceName"),
                                      JOr(JGet(item, "Name"),
                                          JOr(JGet(item, "researchText"),
                                              J("str", <<>>)))))),
                   KV("duration", JOr(JGet(item, "duration"),
                                      JOr(JGet(item, "Duration"),
                                          JGet(item, "timePriemMinutes")))),
                   KV("raw", item)>>)
         IN IF item.t = "dict" THEN <<row>> \o ServiceRows(Tail(items))
            ELSE ServiceRows(Tail(items))

_normalize_services(data) ==
    IF data.t = "list" THEN ServiceRows(data.v)
    ELSE IF data.t = "dict"
    THEN LET keys == <<"services", "data", "items", "result">>
             K == {i \in 1..Len(keys) : JGet(data, keys[i]).t = "list"}
         IN IF K = {} THEN <<>>
            ELSE ServiceRows(JGet(data, keys[SetMin(K)]).v)
    ELSE <<>>

\* get_service_duration(base_url, token, id_direction) when the GET, if one
\* is made, does o; requests counts the GETs made.
get_service_duration(id_direction, o) ==
    IF ~JTruthy(id_direction)
    THEN [raised |-> FALSE, ret |-> <<>>, requests |-> 0]
    ELSE IF o.exc THEN [raised |-> TRUE, ret |-> <<>>, requests |-> 1]
    ELSE IF o.status_code # 200
    THEN [raised |-> FALSE, ret |-> <<>>, requests |-> 1]
    ELSE [raised |-> FALSE, ret |-> _normalize_services(_safe_json(o)),
          requests |-> 1]

\* The lists of a sequence of lists, one after the other.
RECURSIVE Concat(_)
Concat(seqs) == IF seqs = <<>> THEN <<>> ELSE Head(seqs) \o Concat(Tail(seqs))

\* {**d, **items}: the items set on d one after the other.
RECURSIVE JMerge(_, _)
JMerge(d, items) ==
    IF items = <<>> THEN d
    ELSE JMerge(JSet(d, Head(items).k, Head(items).v), Tail(items))

\* start_full / end_full of the nested shape: a str of at most 5 characters
\* with a colon is put behind the date key, anything else is kept.
WithDate_NoColonTest(date_str, value) ==
    IF value.t = "str" /\ PyLen(value.v) <= 5
    THEN J("str", <<date_str, " ">> \o value.v)
    ELSE value

WithDate(date_str, value) ==
    IF value.t = "str" /\ PyLen(value.v) <= 5 /\ Contains(value.v, <<":">>)
    THEN J("str", <<date_str, " ">> \o value.v)
    ELSE value

\* add_slot(start, end, raw)
add_slot(start, end, raw) == [startAt |-> start, endAt |-> end, raw |-> raw]

\* slot.get("startAt") or slot.get("start") or slot.get("time"), and the
\* same for the end.
SlotStart(slot) ==
    JOr(JGet(slot, "startAt"), JOr(JGet(slot, "start"), JGet(slot, "time")))

SlotEnd(slot) == JOr(JGet(slot, "endAt"), JGet(slot, "end"))

\* First shape: a list of dicts whose list values hold day blocks; the list
\* values of a block are the slots of the date that is their key, its other
\* values the metadata of the block.
NestedSlots(data) ==
    Concat([i \in 1..Len(data.v) |->
      LET item == data.v[i] IN
      IF item.t # "dict" THEN <<>> ELSE
      Concat([j \in 1..Len(item.v) |->
        LET dates == item.v[j].v IN
        IF dates.t # "list" THEN <<>> ELSE
        Concat([b \in 1..Len(dates.v) |->
          LET block == dates.v[b] IN
          IF block.t # "dict" THEN <<>> ELSE
          LET meta == Concat([m \in 1..Len(block.v) |->
                        IF block.v[m].v.t # "list" THEN <<block.v[m]>> ELSE <<>>])
          IN
          Concat([d \in 1..Len(block.v) |->
            LET date_str == block.v[d].k
                day_slots == block.v[d].v
            IN
            IF day_slots.t # "list" THEN <<>> ELSE
            Concat([s \in 1..Len(day_slots.v) |->
              LET slot == day_slots.v[s] IN
              IF slot.t # "dict" THEN <<>>
              ELSE IF ~JTruthy(SlotStart(slot)) THEN <<>>
              ELSE <<add_slot(
                       WithDate(date_str, SlotStart(slot)),
                       WithDate(date_str, SlotEnd(slot)),
                       JMerge(JMerge(J("dict", <<KV("date", J("str", <<date_str>>))>>),
                                     meta),
                              slot.v))>>])])])])])

\* Second shape: a dict whose list values hold days with date and times.
DaySlots(data) ==
    Concat([i \in 1..Len(data.v) |->
      LET value == data.v[i].v IN
      IF value.t # "list" THEN <<>> ELSE
      Concat([j \in 1..Len(value.v) |->
        LET day == value.v[j] IN
        IF day.t # "dict" THEN <<>> ELSE
        LET date == JOr(JGet(day, "date"), JGet(day, "Date"))
            times == JOr(JGet(day, "times"),
                         JOr(JGet(day, "Times"), J("list", <<>>)))
        IN
        IF ~(times.t = "list" /\ JTruthy(date)) THEN <<>> ELSE
        Concat([n \in 1..Len(times.v) |->
          LET time_item == times.v[n] IN
          IF time_item.t # "str" THEN <<>>
          ELSE <<add_slot(J("str", PyStr(date).v \o <<" ">> \o time_item.v),
                          JNull,
                          J("dict", <<KV("date", date), KV("time", time_item)>>))>>])])])

\* Third shape: a list of slot dicts.
FlatSlots(data) ==
    Concat([i \in 1..Len(data.v) |->
      LET item == data.v[i] IN
      IF item.t # "dict" THEN <<>>
      ELSE IF ~JTruthy(SlotStart(item)) THEN <<>>
      ELSE <<add_slot(SlotStart(item), SlotEnd(item), item)>>])

_normalize_slots_FlatToo(data) ==
    IF data.t = "list" THEN NestedSlots(data) \o FlatSlots(data)
    ELSE IF data.t = "dict" THEN DaySlots(data) ELSE <<>>

_normalize_slots(data) ==
    IF data.t = "list" /\ NestedSlots(data) # <<>> THEN NestedSlots(data)
    ELSE IF data.t = "dict" /\ DaySlots(data) # <<>> THEN DaySlots(data)
    ELSE IF data.t = "list" THEN FlatSlots(data)
    ELSE <<>>

\* The first loop of _normalize_doctors: id, name and raw of each dict.
RECURSIVE DoctorRows(_)
DoctorRows(items) ==
    IF items = <<>> THEN <<>>
    ELSE LET item == Head(items)
             row == J("dict",
                 <<KV("id", JOr(JGet(item, "id"), JOr(JGet(item, "Id"),
                                JOr(JGet(item, "doctorId"), JGet(item, "ID"))))),
                   KV("name", JOr(JGet(item, "name"), JOr(JGet(item, "fio"),
                                  JOr(JGet(item, "FIO"), JOr(JGet(item, "fullName"),
                                      J("str", <<>>)))))),
                   KV("raw", item)>>)
         IN IF item.t = "dict" THEN <<row>> \o DoctorRows(Tail(items))
            ELSE DoctorRows(Tail(items))

\* The second loop: unique, given the rows still to see and the ids seen.
RECURSIVE Unique_KeepsAll(_, _)
Unique_KeepsAll(out, seen) ==
    IF out = <<>> THEN <<>>
    ELSE LET doc_id == JGet(Head(out), "id")
         IN IF JTruthy(doc_id)
            THEN <<Head(out)>> \o Unique_KeepsAll(Tail(out), seen \cup {doc_id})
            ELSE Unique_KeepsAll(Tail(out), seen)

RECURSIVE Unique(_, _)
Unique(out, seen) ==
    IF out = <<>> THEN <<>>
    ELSE LET doc_id == JGet(Head(out), "id")
         IN IF JTruthy(doc_id) /\ doc_id \notin seen
            THEN <<Head(out)>> \o Unique(Tail(out), seen \cup {doc_id})
            ELSE Unique(Tail(out), seen)

\* _normalize_doctors(data); `for item in iterable` raises TypeError when
\* the value found under the wrapper key is a number, and finds no dict in a
\* str or a dict.
_normalize_doctors(data) ==
    LET iterable ==
            IF data.t = "list" THEN data
            ELSE IF data.t = "dict"
            THEN JOr(JGet(data, "data"), JOr(JGet(data, "items"),
                     JOr(JGet(data, "result"), JOr(JGet(data, "doctors"),
                         J("list", <<>>)))))
            ELSE J("list", <<>>)
    IN IF iterable.t = "num" THEN [raised |-> TRUE, ret |-> <<>>]
       ELSE IF iterable.t # "list" THEN [raised |-> FALSE, ret |-> <<>>]
       ELSE [raised |-> FALSE, ret |-> Unique(DoctorRows(iterable.v), {})]

\* The values of the query strings and form bodies, in the order of
\* sorted(); the first two are the ones [0-9]+ matches.
ValueOrder == <<"123", "45", "abc", "bel">>

\* parse_qs(text) as the sequence of its key/value pairs; in text a key, a
\* value, "=", "&" and "?" are one symbol each, and a key without a value is
\* left out as parse_qs leaves it out.
parse_qs(text) ==
    Concat([i \in 1..Len(text) |->
        IF /\ text[i] = "=" /\ 1 < i /\ i < Len(text)
           /\ text[i - 1] \notin {"=", "&"} /\ text[i + 1] \notin {"=", "&"}
        THEN <<KV(text[i - 1], text[i + 1])>>
        ELSE <<>>])

\* The body of the loop of parse_har_for_patient for one entry; acc holds
\* patient_ids, ins_name and fields_seen, and raised once an exception
\* (AttributeError, TypeError) has left the loop.
HarEntry(entry, acc) ==
    LET request == IF entry.t = "dict"
                   THEN JOr(JGet(entry, "request"), J("dict", <<>>)) ELSE JNull
        url == IF request.t = "dict"
               THEN JOr(JGet(request, "url"), J("str", <<>>)) ELSE JNull
        postData == IF request.t = "dict"
                    THEN JOr(JGet(request, "postData"), J("dict", <<>>)) ELSE JNull
        body == IF postData.t = "dict"
                THEN JOr(JGet(postData, "text"), J("str", <<>>)) ELSE JNull
    IN IF acc.raised \/ url.t # "str" \/ body.t # "str"
       THEN [acc EXCEPT !.raised = TRUE]
       ELSE LET Q == {i \in 1..Len(url.v) : url.v[i] = "?"}
                params == IF Q = {} THEN <<>>
                          ELSE parse_qs(SubSeq(url.v, SetMin(Q) + 1, Len(url.v)))
                M == {i \in 1..(Len(body.v) - 2) :
                        /\ body.v[i] = "patientAPIId" /\ body.v[i + 1] = "="
                        /\ body.v[i + 2] \in {ValueOrder[1], ValueOrder[2]}}
                form == parse_qs(body.v)
                create == /\ url.v # <<>> /\ url.v[Len(url.v)] = "/record/create"
                          /\ JGet(request, "method") = J("str", <<"POST">>)
                keys == Concat([n \in 1..Len(form) |->
                            IF \E m \in 1..(n - 1) : form[m].k = form[n].k
                            THEN <<>> ELSE <<form[n].k>>])
                I == {n \in 1..Len(form) : form[n].k = "Ins_name"}
            IN [raised |-> FALSE,
                patient_ids |-> acc.patient_ids
                    \cup {params[n].v : n \in {n \in 1..Len(params) :
                                                 params[n].k = "patientAPIId"}}
                    \cup (IF M = {} THEN {} ELSE {body.v[SetMin(M) + 2]}),
                ins_name |-> IF create /\ I # {}
                             THEN J("str", <<form[SetMin(I)].v>>) ELSE acc.ins_name,
                fields_seen |-> IF create THEN keys ELSE acc.fields_seen]

RECURSIVE HarEntries(_, _)
HarEntries(entries, acc) ==
    IF entries = <<>> THEN acc
    ELSE HarEntries(Tail(entries), HarEntry(Head(entries), acc))

\* The file at har_path: none, one that json.loads rejects, or a JSON value.
NoFile == J("nofile", 0)

\* parse_har_for_patient(har_path) for the file at har_path.
parse_har_for_patient(file) ==
    LET result == [patient_ids |-> <<>>, ins_name |-> JNull, record_fields |-> <<>>]
        log == IF file.t # "dict" THEN JNull
               ELSE IF \E i \in 1..Len(file.v) : file.v[i].k = "log"
               THEN JGet(file, "log") ELSE J("dict", <<>>)
        entries == IF log.t # "dict" THEN JNull
                   ELSE IF \E i \in 1..Len(log.v) : log.v[i].k = "entries"
                   THEN JGet(log, "entries") ELSE J("list", <<>>)
        \* iterating a dict gives its keys and a str its characters: no dicts
        iterated == IF entries.t = "list" THEN entries.v
                    ELSE IF entries.t \in {"dict", "str"}
                    THEN [i \in 1..Len(entries.v) |-> J("str", <<"x">>)]
                    ELSE <<>>
        acc == HarEntries(iterated, [raised |-> entries.t \notin {"list", "dict", "str"},
                                     patient_ids |-> {}, ins_name |-> JNull,
                                     fields_seen |-> <<>>])
    IN IF file = NoFile \/ file = NotJson THEN [raised |-> FALSE, ret |-> result]
       ELSE IF acc.raised THEN [raised |-> TRUE, ret |-> result]
       ELSE [raised |-> FALSE,
             ret |-> [patient_ids |->
                          Concat([n \in 1..Len(ValueOrder) |->
                              IF ValueOrder[n] \in acc.patient_ids
                              THEN <<ValueOrder[n]>> ELSE <<>>]),
                      ins_name |-> acc.ins_name,
                      record_fields |-> acc.fields_seen]]

(***************************************************************************)
(* tools.py.  A float is J("float", [n |-> n, d |-> d]) for the number     *)
(* n / d (d a power of ten), J("nan", 0) or J("inf", 0).                   *)
(***************************************************************************)

\* round(x) of the float n / d: to the nearest integer, a tie to the even one.
PyRound(n, d) ==
    LET q == n \div d
        r == n % d
    IN IF 2 * r < d THEN q
       ELSE IF 2 * r > d THEN q + 1
       ELSE IF q % 2 = 0 THEN q ELSE q + 1

RECURSIVE Pow10(_)
Pow10(k) == IF k = 0 THEN 1 ELSE 10 * Pow10(k - 1)

\* float(text) for a text of digits, signs, points, spaces and letters, one
\* character a symbol (no exponent, no underscore): JNull when float()
\* raises ValueError.
PyFloat(text) ==
    LET signed == text # <<>> /\ text[1] \in {"-", "+"}
        body == IF signed THEN Tail(text) ELSE text
        P == {i \in 1..Len(body) : body[i] = "."}
        p == IF P = {} THEN Len(body) + 1 ELSE SetMin(P)
        whole == SubSeq(body, 1, p - 1)
        frac == SubSeq(body, p + 1, Len(body))
        n == ToInt(whole \o frac)
    IN IF Lower(body) = <<"n", "a", "n">> THEN J("nan", 0)
       ELSE IF Lower(body) = <<"i", "n", "f">> THEN J("inf", 0)
       ELSE IF /\ Cardinality(P) <= 1
               /\ whole \o frac # <<>>
               /\ \A i \in 1..Len(whole \o frac) : IsDigit((whole \o frac)[i])
       THEN J("float", [n |-> IF signed /\ text[1] = "-" THEN 0 - n ELSE n,
                        d |-> Pow10(Len(frac))])
       ELSE JNull

\* _to_int_minutes(value)
_to_int_minutes(value) ==
    IF value.t = "null" THEN [raised |-> FALSE, ret |-> JNull]
    ELSE IF value.t = "num" THEN [raised |-> FALSE, ret |-> value]
    ELSE IF value.t = "float"
    THEN [raised |-> FALSE, ret |-> J("num", PyRound(value.v.n, value.v.d))]
    ELSE IF value.t \in {"nan", "inf"} THEN [raised |-> TRUE, ret |-> JNull]
    ELSE IF value.t # "str" THEN [raised |-> FALSE, ret |-> JNull]
    ELSE LET stripped == Strip(value.v)
             text == [i \in 1..Len(stripped) |->
                         IF stripped[i] = "," THEN "." ELSE stripped[i]]
             number == PyFloat(text)
         IN IF text = <<>> \/ number.t # "float"
            THEN [raised |-> FALSE, ret |-> JNull]
            ELSE [raised |-> FALSE,
                  ret |-> J("num", PyRound(number.v.n, number.v.d))]

\* Resolver.__init__: the lower-case name -> id map of the entities of one
\* kind (a dict id -> entity, as the sequence of its items); of two entities
\* with one name the later wins.
name2id(entities, field) ==
    LET named == {i \in 1..Len(entities) :
                    /\ entities[i].v.t = "dict"
                    /\ JGet(entities[i].v, field).t = "str"}
        key(i) == Lower(Strip(JGet(entities[i].v, field).v))
    IN [names |-> {key(i) : i \in named},
        id |-> [name \in {key(i) : i \in named} |->
                   entities[SetMax({i \in named : key(i) = name})].k]]

\* Resolver(kb).normalize(text); kb.entities holds services, directions and
\* doctors.  NoneObj is None.
normalize(kb, text) ==
    LET t == IF text = JNull THEN <<>> ELSE Lower(Strip(text.v))
        ids(kind) == {kb[kind][i].k : i \in 1..Len(kb[kind])}
        service_name2id == name2id(kb.services, "service_name")
        direction_name2id == name2id(kb.directions, "direction_name")
        doctor_name2id == name2id(kb.doctors, "doctor_name")
    IN IF t = <<>> THEN NoneObj
       ELSE IF t \in ids("services") THEN [kind |-> "service", id |-> t]
       ELSE IF t \in ids("directions") THEN [kind |-> "direction", id |-> t]
       ELSE IF t \in ids("doctors") THEN [kind |-> "doctor", id |-> t]
       ELSE IF t \in service_name2id.names
       THEN [kind |-> "service", id |-> service_name2id.id[t]]
       ELSE IF t \in direction_name2id.names
       THEN [kind |-> "direction", id |-> direction_name2id.id[t]]
       ELSE IF t \in doctor_name2id.names
       THEN [kind |-> "doctor", id |-> doctor_name2id.id[t]]
       ELSE NoneObj

(***************************************************************************)
(* tools.py: the tool adapters.  Every adapter takes a typed input, reads  *)
(* its base_url and token and calls one client operation with them.        *)
(***************************************************************************)

\* The guest token (the value when AMEDIS_GUEST_TOKEN is not set).
DEFAULT_GUEST_TOKEN == <<"Q9j87S4FV12e86475e82V5d44S7c2c2bb_35">>

\* The field defaults BaseToolInput declares.
BaseToolInput == [base_url |-> JNull, token |-> J("str", DEFAULT_GUEST_TOKEN)]

\* The defaults each input class declares itself for the fields of its base:
\* every one of them declares base_url and token again.
InputClasses ==
    [directions    |-> [base_url |-> JNull, token |-> JNull],
     doctors       |-> [base_url |-> JNull, token |-> JNull],
     services      |-> [base_url |-> JNull, token |-> JNull],
     schedule      |-> [base_url |-> JNull, token |-> JNull],
     create_record |-> [base_url |-> JNull, token |-> JNull],
     list_records  |-> [base_url |-> JNull, token |-> JNull],
     cancel_record |-> [base_url |-> JNull, token |-> JNull]]

\* The default of a field of an input class: the class's own declaration
\* wins over the declaration of its base.
FieldDefault(tool, field) ==
    IF field \in DOMAIN InputClasses[tool] THEN InputClasses[tool][field]
    ELSE BaseToolInput[field]

\* An input object: the fields given by the caller, the others at their
\* defaults.
ToolInput(tool, given) ==
    [field \in DOMAIN BaseToolInput |->
        IF field \in DOMAIN given THEN given[field] ELSE FieldDefault(tool, field)]

\* The client operation behind each adapter.
ClientOperation ==
    [directions    |-> "discover_directions",
     doctors       |-> "get_doctors",
     services      |-> "get_service_duration",
     schedule      |-> "get_schedule",
     create_record |-> "create_record",
     list_records  |-> "list_patient_records",
     cancel_record |-> "cancel_record"]

\* The adapters that answer from the local knowledge base when there is one.
LocalTools == {"directions", "doctors", "services"}

\* Tool.call(input): the client call the adapter makes, if it makes one.
\* getattr(input, "token", DEFAULT_GUEST_TOKEN) reads the attribute, which
\* every input object has.
ToolCall(tool, input, local_kb) ==
    IF local_kb /\ tool \in LocalTools
    THEN [called |-> FALSE, op |-> "local_kb", token |-> JNull]
    ELSE [called |-> TRUE, op |-> ClientOperation[tool],
          token |-> IF "token" \in DOMAIN input THEN input.token
                    ELSE J("str", DEFAULT_GUEST_TOKEN)]

(***************************************************************************)
(* gemini_token.py.  The environment variable GOOGLE_API_KEY is JNull when *)
(* unset and a str otherwise; the token file is NoFile or a str, its       *)
(* content.                                                                *)
(***************************************************************************)

\* _read_token(path) for the file at path.
_read_token(file) ==
    IF file.t = "nofile" THEN JNull
    ELSE IF Strip(file.v) = <<>> THEN JNull
    ELSE J("str", Strip(file.v))

\* _write_token(path, token): the file it leaves.
_write_token(token) == J("str", token \o <<"\n">>)

\* ensure_gemini_token(token, persist=persist, path=path) with the
\* environment variable at env and the file at path being file: whether it
\* raises, the pair it returns, and the environment and the file it leaves.
ensure_gemini_token_FileFirst(token, persist, env, file) ==
    IF token.t # "null"
    THEN IF Strip(token.v) = <<>>
         THEN [raised |-> TRUE, token |-> JNull, source |-> "none",
               env |-> env, file |-> file]
         ELSE [raised |-> FALSE, token |-> J("str", Strip(token.v)), source |-> "cli",
               env |-> J("str", Strip(token.v)),
               file |-> IF persist THEN _write_token(Strip(token.v)) ELSE file]
    ELSE IF _read_token(file).t # "null"
    THEN [raised |-> FALSE, token |-> _read_token(file), source |-> "file",
          env |-> _read_token(file), file |-> file]
    ELSE IF env.t = "str" /\ env.v # <<>> /\ Strip(env.v) # <<>>
    THEN [raised |-> FALSE, token |-> J("str", Strip(env.v)), source |-> "env",
          env |-> env,
          file |-> IF persist THEN _write_token(Strip(env.v)) ELSE file]
    ELSE [raised |-> FALSE, token |-> JNull, source |-> "none",
          env |-> env, file |-> file]

ensure_gemini_token(token, persist, env, file) ==
    IF token.t # "null"
    THEN IF Strip(token.v) = <<>>
         THEN [raised |-> TRUE, token |-> JNull, source |-> "none",
               env |-> env, file |-> file]
         ELSE [raised |-> FALSE, token |-> J("str", Strip(token.v)), source |-> "cli",
               env |-> J("str", Strip(token.v)),
               file |-> IF persist THEN _write_token(Strip(token.v)) ELSE file]
    ELSE IF env.t = "str" /\ env.v # <<>> /\ Strip(env.v) # <<>>
    THEN [raised |-> FALSE, token |-> J("str", Strip(env.v)), source |-> "env",
          env |-> env,
          file |-> IF persist THEN _write_token(Strip(env.v)) ELSE file]
    ELSE IF _read_token(file).t # "null"
    THEN [raised |-> FALSE, token |-> _read_token(file), source |-> "file",
          env |-> _read_token(file), file |-> file]
    ELSE [raised |-> FALSE, token |-> JNull, source |-> "none",
          env |-> env, file |-> file]

\* Some JSON payloads.
Str(text) == J("str", text)
Dict1(k1, v1) == J("dict", <<KV(k1, v1)>>)
Dict2(k1, v1, k2, v2) == J("dict", <<KV(k1, v1), KV(k2, v2)>>)
Html == <<"<", "h", "t", "m", "l", ">">>

\* What one candidate endpoint may do.
DirectionAnswers ==
    {CalledProcessError,
     ResponseShim(404, <<"[{id,name}]">>,
                  J("list", <<Dict2("id", J("num", 1),
                                    "name", Str(<<"kardio">>))>>)),
     ResponseShim(200, Html, NotJson),
     ResponseShim(200, <<"[{name}]">>,
                  J("list", <<Dict1("name", Str(<<"kardio">>))>>)),
     ResponseShim(200, <<"{data:[{ID,title}]}">>,
                  Dict1("data", J("list", <<Dict2("ID", J("num", 3),
                                                  "title", Str(<<"uzi">>))>>)))}

\* Arguments of create_record: the doctor id a number or a str, with and
\* without an end time.
CreateArgs ==
    {[token |-> Str(<<"tok">>), doctor_id |-> d, patient_id |-> Str(<<"1", "2", "3">>),
      start_at |-> Str(<<"2024-06-01 10:00">>), end_at |-> e,
      description |-> Str(<<"zz">>), insurer |-> Str(<<"bel">>)] :
        d \in {J("num", 7), Str(<<"7">>)},
        e \in {JNull, Str(<<"2024-06-01 10:30">>)}}

\* The extra argument: None, empty, with values that are None, "" and 0,
\* and with a key that is also a base field.
CreateExtras ==
    {JNull, J("dict", <<>>),
     Dict1("officeId", Str(<<"7">>)),
     Dict2("officeId", Str(<<"7">>), "cabinetId", Str(<<>>)),
     Dict2("office", JNull, "serviceId", J("num", 0)),
     Dict2("token", Str(<<"other">>), "cabinetId", Str(<<"9">>)),
     J("dict", <<KV("cabinetId", Str(<<>>)), KV("officeId", Str(<<"7">>)),
                 KV("office", JNull), KV("endAt", Str(<<>>)),
                 KV("directionId", Str(<<"3">>))>>)}

\* What the POST may do; the last body is longer than 800 characters.
CreateAnswers ==
    {CalledProcessError,
     ResponseShim(200, <<"{id}">>, Dict1("id", J("num", 5))),
     ResponseShim(200, Html, NotJson),
     ResponseShim(500, <<"{error}">>, Dict1("error", Str(<<"busy">>))),
     ResponseShim(404, Html, NotJson),
     ResponseShim(400, <<>>, NotJson),
     ResponseShim(502, [i \in 1..(ErrorTextLimit + 1) |-> "x"], NotJson)}

\* What the GET of the service durations may do.
ServiceAnswers ==
    {CalledProcessError,
     ResponseShim(500, Html, NotJson),
     ResponseShim(404, <<"[{id}]">>, J("list", <<Dict1("id", J("num", 8))>>)),
     ResponseShim(200, Html, NotJson),
     ResponseShim(200, <<"[]">>, J("list", <<>>)),
     ResponseShim(200, <<"[{id,duration},5]">>,
                  J("list", <<Dict2("id", J("num", 8), "duration", J("num", 30)),
                              J("num", 5)>>)),
     ResponseShim(200, <<"{data:{},items:[{serviceId,Name}]}">>,
                  Dict2("data", J("dict", <<>>),
                        "items", J("list", <<Dict2("serviceId", Str(<<"8">>),
                                                   "Name", Str(<<"uzi">>))>>)))}

\* Elements of the slot list of one date: with a short time, a full
\* timestamp, a short value without a colon, no start, an empty startAt and
\* keys that are also metadata, numbers, no dict, a long time.
Time(hh, mm) == Str(<<hh, ":", mm>>)

SlotDicts ==
    {J("dict", <<KV("startAt", Time("09", "00")), KV("endAt", Time("09", "30")),
                 KV("extra", J("num", 1))>>),
     Dict2("start", Str(<<"2023-10-01T10:00">>), "end", JNull),
     Dict2("time", Time("9", "5"), "end", Str(<<"0930">>)),
     Dict1("endAt", Time("09", "30")),
     J("dict", <<KV("startAt", Str(<<>>)), KV("time", Time("11", "00")),
                 KV("officeId", Str(<<"99">>)), KV("date", Str(<<"own">>))>>),
     Dict2("startAt", J("num", 900), "endAt", J("num", 930)),
     J("num", 5),
     Dict1("startAt", Str(<<"10", ":", "00", ":", "00">>))}

DayLists == UNION {[1..n -> SlotDicts] : n \in 0..MaxSlots}

\* Payloads of the schedule endpoint around one slot list: the payload of
\* the test, one with several blocks, dates and metadata between elements
\* of no use, and one whose elements are slot dicts as well.
SchedulePayloads ==
    {J("list", <<Dict1("someKey", J("list",
         <<Dict2("2023-10-01", J("list", day), "officeId", Str(<<"11">>))>>))>>) :
        day \in DayLists}
    \cup
    {J("list",
       <<J("num", 7),
         J("dict",
           <<KV("a", Str(<<"x">>)),
             KV("b", J("list",
                <<J("num", 5),
                  J("dict", <<KV("officeId", Str(<<"11">>)),
                              KV("date", Str(<<"meta">>)),
                              KV("2023-10-02", J("list",
                                   <<Dict1("start", Time("08", "00"))>>)),
                              KV("2023-10-01", J("list", day)),
                              KV("breaks", J("list", <<>>))>>)>>)),
             KV("c", J("list",
                <<Dict1("2023-10-03", J("list",
                     <<Dict2("time", Time("9", "5"), "end", Str(<<"0930">>))>>))>>))>>),
         Dict1("startAt", Time("12", "00"))>>) :
        day \in DayLists}
    \cup
    {J("list",
       <<Dict2("k", J("list", <<Dict1("2023-10-01", J("list", day))>>),
               "startAt", Str(<<"2023-10-01 08:00">>)),
         Dict2("time", Time("07", "00"), "end", Time("07", "30")),
         Dict1("end", Time("07", "30"))>>) :
        day \in DayLists}
    \cup
    {J("dict",
       <<KV("x", J("list",
            <<Dict2("date", Str(<<"2023-10-01">>),
                    "times", J("list", <<Time("09", "00"), J("num", 5),
                                         Time("10", "00")>>)),
              J("num", 3),
              Dict2("Date", Str(<<"2023-10-02">>),
                    "Times", J("list", <<Time("11", "00")>>))>>)),
         KV("y", J("num", 5))>>),
     Dict1("x", J("list",
         <<J("dict", <<KV("date", Str(<<>>)), KV("Date", Str(<<"2023-10-02">>)),
                       KV("times", J("list", <<>>)),
                       KV("Times", J("list", <<Time("12", "00")>>))>>)>>)),
     Dict1("x", J("list",
         <<Dict2("date", Str(<<"2023-10-01">>), "times", Str(<<"0900">>)),
           Dict1("times", J("list", <<Time("09", "00")>>))>>)),
     Dict1("x", J("list",
         <<Dict2("date", J("num", 5), "times", J("list", <<Time("09", "00")>>))>>)),
     Dict2("startAt", Time("09", "00"), "endAt", Time("09", "30")),
     J("dict", <<>>), J("list", <<>>), JNull, J("num", 5), Str(<<"x">>)}

\* Elements of a list of doctors: the id under each of its names, the
\* same id twice, as a number and as a str, a falsy id before another id,
\* no id, no dict.
DoctorItems ==
    {Dict2("id", J("num", 1), "name", Str(<<"ivanou">>)),
     Dict2("Id", J("num", 1), "fio", Str(<<"piatrou">>)),
     Dict2("id", J("num", 0), "doctorId", J("num", 2)),
     Dict2("doctorId", J("num", 2), "FIO", Str(<<"ivanou">>)),
     Dict1("id", Str(<<"1">>)),
     Dict2("ID", J("num", 0), "fullName", Str(<<"x">>)),
     Dict1("name", Str(<<"ivanou">>)),
     J("num", 5)}

\* Payloads of the doctors endpoint: a list, and the wrappers.
DoctorPayloads ==
    {J("list", items) : items \in UNION {[1..n -> DoctorItems] : n \in 0..MaxItems}}
    \cup {Dict1("data", J("list", <<d, e>>)) : d, e \in DoctorItems}
    \cup {J("dict", <<KV("data", J("list", <<>>)), KV("doctors", J("list", <<d>>)),
                      KV("items", J("list", <<e>>))>>) : d, e \in DoctorItems}
    \cup {Dict1("result", J("num", 5)), Dict1("doctors", Str(<<"x">>)),
          Dict1("items", Dict1("id", J("num", 1))),
          J("dict", <<>>), JNull, J("num", 5), Str(<<"x">>)}

\* Payloads of a directions endpoint: lists of elements with the id and
\* the name under their several names, with the ids 0 and "", without id,
\* and the wrappers.
DirectionItems ==
    {Dict2("id", Str(<<"1">>), "name", Str(<<"kardio">>)),
     Dict2("Id", Str(<<"2">>), "Title", Str(<<"uzi">>)),
     Dict2("id", J("num", 0), "name", Str(<<"kardio">>)),
     Dict2("id", J("num", 0), "idDirection", J("num", 5)),
     Dict2("id", Str(<<>>), "ID", Str(<<>>)),
     Dict2("ID", J("num", 0), "direction", Str(<<"uzi">>)),
     J("dict", <<KV("idDirection", J("num", 5)), KV("name", Str(<<>>)),
                 KV("title", Str(<<"uzi">>))>>),
     Dict1("name", Str(<<"kardio">>)),
     J("num", 5)}

DirectionPayloads ==
    {J("list", items) : items \in UNION {[1..n -> DirectionItems] : n \in 0..MaxItems}}
    \cup {J("dict", <<KV("data", Str(<<"x">>)), KV("result", J("list", <<d>>)),
                      KV("items", J("list", <<e>>))>>) : d, e \in DirectionItems}
    \cup {Dict1("rows", J("list", <<d>>)) : d \in DirectionItems}
    \cup {J("dict", <<>>), JNull, J("num", 5), Str(<<"x">>)}

\* Entries of a HAR file: a GET with the patient id in the query, the POST
\* of a booking, entries without a request, and entries, requests, urls and
\* post data of the wrong type.
HarRequests ==
    {J("dict", <<KV("url", Str(<<"https://h/records", "?", "patientAPIId", "=", "123",
                                  "&", "token", "=", "abc">>)),
                 KV("method", Str(<<"GET">>))>>),
     J("dict", <<KV("url", Str(<<"https://h", "/record/create">>)),
                 KV("method", Str(<<"POST">>)),
                 KV("postData", Dict1("text",
                    Str(<<"token", "=", "abc", "&", "patientAPIId", "=", "45", "&",
                          "Ins_name", "=", "bel", "&", "description", "=", "&",
                          "token", "=", "bel">>)))>>),
     J("dict", <<KV("url", Str(<<"https://h", "/record/create">>)),
                 KV("method", Str(<<"POST">>)), KV("postData", JNull)>>),
     Dict1("url", J("num", 5)),
     Dict2("url", JNull, "postData", Str(<<"x">>)),
     JNull, Str(<<"x">>)}

HarFiles ==
    {Dict1("log", Dict1("entries", J("list", entries))) :
        entries \in UNION {[1..n -> {Dict1("request", r) : r \in HarRequests}
                                      \cup {J("dict", <<>>), J("num", 1)}] :
                             n \in 0..MaxItems}}
    \cup {Dict1("log", Dict1("entries", e)) :
            e \in {JNull, J("num", 5), J("dict", <<>>), Dict1("a", J("num", 1)),
                   Str(<<>>), Str(<<"x">>)}}
    \cup {Dict1("log", l) : l \in {JNull, J("list", <<>>), Str(<<"x">>), J("dict", <<>>)}}
    \cup {NoFile, NotJson, J("list", <<>>), J("num", 5), Str(<<"x">>), JNull,
          J("dict", <<>>), Dict1("x", J("num", 1))}

\* Raw durations: None, integers, floats in tenths (ties among them), the
\* floats of the JSON literals NaN and Infinity, lists, dicts, and every
\* str of up to MaxText characters of a small alphabet, with some words.
DurationValues ==
    {JNull, J("nan", 0), J("inf", 0), J("list", <<J("num", 1)>>),
     Dict1("a", J("num", 1)),
     Str(<<"n", "a", "n">>), Str(<<"i", "n", "f">>), Str(<<"a", "b", "c">>),
     Str(<<" ", "3", "0", " ">>), Str(<<"4", "5", ",", "6">>),
     Str(<<"-", "2", ".", "5">>)}
    \cup {J("num", n) : n \in {0 - 3, 0, 7, 30}}
    \cup {J("float", [n |-> n, d |-> 10]) : n \in ((0 - 26)..26) \cup {300, 456}}
    \cup {Str(text) : text \in UNION {[1..n -> {"3", "5", ",", ".", " ", "-"}] :
                                        n \in 0..MaxText}}

\* Knowledge bases: ids of digits, of lower-case and of upper-case
\* letters, names in both cases and with spaces around, two entities of one
\* name, an id that is the name of another entity, names and entities of
\* the wrong type.
KnowledgeBases ==
    {[services |-> s, directions |-> d, doctors |-> c] :
        s \in {<<>>,
               <<KV(<<"1", "2">>, Dict1("service_name", Str(<<"Uzi">>)))>>,
               <<KV(<<"Uzi">>, Dict1("service_name", Str(<<"Kardio", " ">>)))>>,
               <<KV(<<"1", "2">>, Dict1("service_name", Str(<<"Kardio">>))),
                 KV(<<"1", "3">>, Dict1("service_name", Str(<<"kardio">>)))>>,
               <<KV(<<"1", "2">>, Dict1("service_name", J("num", 5))),
                 KV(<<"1", "3">>, Str(<<"uzi">>))>>},
        d \in {<<>>,
               <<KV(<<"1", "2">>, Dict1("direction_name", Str(<<"Kardio">>)))>>,
               <<KV(<<"kardio">>, Dict1("direction_name", Str(<<"Uzi">>)))>>,
               <<KV(<<"3">>, Dict1("direction_name", Str(<<"uzi">>)))>>},
        c \in {<<>>,
               <<KV(<<"ivanou">>, Dict1("doctor_name", Str(<<"Ivanou">>)))>>,
               <<KV(<<"7">>, Dict1("doctor_name", Str(<<"Uzi">>)))>>,
               <<KV(<<"1", "2">>, Dict1("doctor_name", Str(<<"ivanou">>)))>>}}

Queries ==
    {JNull, Str(<<>>), Str(<<" ">>), Str(<<"1", "2">>), Str(<<" ", "1", "2", " ">>),
     Str(<<"1", "3">>), Str(<<"1">>), Str(<<"3">>), Str(<<"7">>),
     Str(<<"uzi">>), Str(<<"Uzi">>), Str(<<"kardio">>), Str(<<"Kardio">>),
     Str(<<" ", "Kardio">>), Str(<<"kardio", " ", "uzi">>), Str(<<"ivanou">>),
     Str(<<"Ivanou">>), Str(<<"pryvitanne">>)}

\* What the caller of an adapter passes for the token: nothing, or a value.
GivenFields ==
    {<<>>} \cup {[token |-> token] :
                    token \in {JNull, Str(<<>>), Str(<<"patient-token">>),
                               Str(DEFAULT_GUEST_TOKEN)}}

\* The token argument, the environment variable and the token file.
TokenArgs == {JNull, Str(<<>>), Str(<<" ">>), Str(<<"abc">>), Str(<<" ", "abc", "\n">>)}
EnvValues == {JNull, Str(<<>>), Str(<<" ">>), Str(<<"from-env">>), Str(<<"from-env", " ">>)}
TokenFiles ==
    {NoFile, Str(<<>>), Str(<<"\n">>), Str(<<"saved-token", "\n">>),
     Str(<<" ", "saved-token">>)}

Call(fn, arg) == [fn |-> fn, arg |-> arg, done |-> FALSE, res |-> JNull]

\* The calls of the client functions: the function and its input.
ClientCalls ==
    {Call("discover_directions", http) :
        http \in [{directions_candidates[i] : i \in 1..Len(directions_candidates)}
                    -> DirectionAnswers]}
    \cup {Call("create_record", [a |-> a, extra |-> extra, o |-> o]) :
            a \in CreateArgs, extra \in CreateExtras, o \in CreateAnswers}
    \cup {Call("get_service_duration", [id_direction |-> d, o |-> o]) :
            d \in {JNull, Str(<<>>), Str(<<"3">>), J("num", 3)},
            o \in ServiceAnswers}
    \cup {Call("_normalize_slots", data) : data \in SchedulePayloads}
    \cup {Call("_normalize_doctors", data) : data \in DoctorPayloads}
    \cup {Call("_normalize_directions", data) : data \in DirectionPayloads}
    \cup {Call("parse_har_for_patient", file) : file \in HarFiles}
    \cup {Call("_to_int_minutes", value) : value \in DurationValues}
    \cup {Call("normalize", [kb |-> kb, text |-> text]) :
            kb \in KnowledgeBases, text \in Queries}
    \cup {Call("tool_call", [tool |-> tool, given |-> given, local_kb |-> local_kb]) :
            tool \in DOMAIN ClientOperation, given \in GivenFields,
            local_kb \in BOOLEAN}
    \cup {Call("ensure_gemini_token",
               [token |-> token, persist |-> persist, env |-> env, file |-> file]) :
            token \in TokenArgs, persist \in BOOLEAN, env \in EnvValues,
            file \in TokenFiles}

InitClient ==
    /\ state = AgentState
    /\ tools = {}
    /\ msg = None
    /\ calls = <<>>
    /\ reply = None
    /\ raised = FALSE
    /\ pre = AgentState
    /\ client \in ClientCalls
    /\ listings = NoFetch

Returns(res) ==
    /\ client' = [client EXCEPT !.done = TRUE, !.res = res]
    /\ UNCHANGED <<state, tools, msg, calls, reply, raised, pre, listings>>

Do_discover_directions ==
    /\ client.fn = "discover_directions" /\ ~client.done
    /\ Returns(discover_directions(client.arg))

Do_create_record ==
    /\ client.fn = "create_record" /\ ~client.done
    /\ Returns(create_record(client.arg.a, client.arg.extra, client.arg.o))

Do_get_service_duration ==
    /\ client.fn = "get_service_duration" /\ ~client.done
    /\ Returns(get_service_duration(client.arg.id_direction, client.arg.o))

Do_normalize_slots ==
    /\ client.fn = "_normalize_slots" /\ ~client.done
    /\ Returns(_normalize_slots(client.arg))

Do_normalize_doctors ==
    /\ client.fn = "_normalize_doctors" /\ ~client.done
    /\ Returns(_normalize_doctors(client.arg))

Do_normalize_directions ==
    /\ client.fn = "_normalize_directions" /\ ~client.done
    /\ Returns(_normalize_directions(client.arg))

Do_parse_har_for_patient ==
    /\ client.fn = "parse_har_for_patient" /\ ~client.done
    /\ Returns(parse_har_for_patient(client.arg))

Do_to_int_minutes ==
    /\ client.fn = "_to_int_minutes" /\ ~client.done
    /\ Returns(_to_int_minutes(client.arg))

Do_normalize ==
    /\ client.fn = "normalize" /\ ~client.done
    /\ Returns(normalize(client.arg.kb, client.arg.text))

Do_tool_call ==
    /\ client.fn = "tool_call" /\ ~client.done
    /\ Returns(ToolCall(client.arg.tool,
                        ToolInput(client.arg.tool, client.arg.given),
                        client.arg.local_kb))

Do_ensure_gemini_token ==
    /\ client.fn = "ensure_gemini_token" /\ ~client.done
    /\ Returns(ensure_gemini_token(client.arg.token, client.arg.persist,
                                   client.arg.env, client.arg.file))

\* A later call without token argument, the environment variable cleared,
\* on the file the first call left.
Do_ensure_gemini_token_later ==
    /\ client.fn = "ensure_gemini_token" /\ client.done /\ ~client.res.raised
    /\ \E persist \in BOOLEAN :
        client' = [fn |-> "ensure_gemini_token_later",
                   arg |-> [first |-> client, persist |-> persist],
                   done |-> TRUE,
                   res |-> ensure_gemini_token(JNull, persist, JNull, client.res.file)]
    /\ UNCHANGED <<state, tools, msg, calls, reply, raised, pre, listings>>

NextClient ==
    \/ Do_discover_directions
    \/ Do_create_record
    \/ Do_get_service_duration
    \/ Do_normalize_slots
    \/ Do_normalize_doctors
    \/ Do_normalize_directions
    \/ Do_parse_har_for_patient
    \/ Do_to_int_minutes
    \/ Do_normalize
    \/ Do_tool_call
    \/ Do_ensure_gemini_token
    \/ Do_ensure_gemini_token_later

SpecClient == InitClient /\ [][NextClient]_vars


(***************************************************************************)
(* Vocabulary of the properties.  In a state with msg # None the call      *)
(* handle_user_message(msg) has just ended: pre is the state it began in,  *)
(* state the state it left, calls the tool calls it made with their        *)
(* outcomes, reply what it returned, raised whether it raised instead.     *)
(***************************************************************************)

Replied == msg # None

\* The message as the handlers see it.
Message == Strip(msg)

\* The message goes to the handler of the current stage: it is not empty,
\* names no .har file and carries no cancel, list or create keyword.
ToStageHandler ==
    /\ Replied
    /\ Message # <<>>
    /\ HarPath(Message) = None
    /\ ~_is_cancel_request(Lower(Message))
    /\ ~_is_list_request(Lower(Message))
    /\ ~_is_create_request(Lower(Message))

\* The booking fields and the candidate lists of st are cleared.
FlowCleared(st) ==
    /\ st.goal = NoName /\ st.stage = NoName
    /\ st.direction_id = None /\ st.doctor_id = None /\ st.service_id = None
    /\ st.slot = NoneObj /\ st.description = None
    /\ st.last_directions = <<>> /\ st.last_doctors = <<>>
    /\ st.last_services = <<>> /\ st.last_slots = <<>>

\* The tool answered call c with status 200 and no error.
Succeeded(c) ==
    IF c.exc # None THEN FALSE
    ELSE c.val.status_code = 200 /\ ~Truthy(c.val.error)

\* C1: no domain tool is called while token, patient_id or insurer is
\* unset: whenever a message makes a call of a domain tool, the token and
\* the patient id were set before the message, the insurer was set before
\* it or is given by this very message, and the call carries that token.
\* Only har_autofill is called with a gate still closed.
C1_GatesBeforeDomainTools ==
    \A i \in 1..Len(calls) :
        calls[i].tool \in DomainTools =>
            /\ Truthy(pre.token)
            /\ Truthy(pre.patient_id)
            /\ Truthy(pre.insurer) \/ Truthy(_extract_insurer(Message))
            /\ Truthy(state.insurer)
            /\ calls[i].args.token = pre.token

\* A domain tool is called by the message that passes the insurer gate.
C1_Witness ==
    /\ Replied
    /\ Len(calls) = 1
    /\ calls[1].tool = "directions"
    /\ ~Truthy(pre.insurer)

\* The position of a stage in the flow (0: no stage).
StageIndex(s) ==
    IF s = NoName THEN 0 ELSE CHOOSE k \in 1..Len(Stages) : Stages[k] = s

\* C2: the create flow is linear.  Across one call of handle_user_message
\* the stage becomes choose_service only from choose_doctor, date_range only
\* from choose_service, pick_slot only from date_range and confirm only from
\* pick_slot; one message runs at most one stage handler, so it makes at
\* most one tool call and moves the stage at most one step forward from the
\* stage its handler started in.
C2_LinearFlow ==
    Replied =>
        /\ \A k \in 3..Len(Stages) :
              (state.stage = Stages[k] /\ pre.stage # Stages[k])
                  => pre.stage = Stages[k - 1]
        /\ Len(calls) <= 1
        /\ (StageIndex(state.stage) > StageIndex(pre.stage) + 1)
              => (state.stage \in {"choose_direction", "choose_doctor"}
                  /\ _is_create_request(Lower(Message)))

\* The flow reaches confirm, coming from pick_slot.
C2_Witness ==
    /\ Replied
    /\ pre.stage = "pick_slot"
    /\ state.stage = "confirm"

\* The message makes one call, of create_record, from stage confirm.
ConfirmedBooking ==
    /\ Replied
    /\ pre.stage = "confirm"
    /\ Len(calls) = 1
    /\ calls[1].tool = "create_record"

FlowTools == {"directions", "doctors", "services", "schedule", "create_record"}

\* C4 as stated: when a tool of the create flow raises while a stage
\* handler processes a message, nothing is raised, the reply contains the
\* exception text and the stage is the one before the message.
C4_StageKeptOnException ==
    (ToStageHandler /\ pre.goal = "create_record") =>
        \A i \in 1..Len(calls) :
            (calls[i].tool \in FlowTools /\ calls[i].exc # None) =>
                /\ ~raised
                /\ Contains(reply, calls[i].exc)
                /\ state.stage = pre.stage

\* C5 as stated: handle_user_message never lets an exception escape.
C5_NeverRaises == ~raised

\* The message contains an affirmative word of _is_confirmation's list.
Affirmative ==
    \E w \in {"tak", "pacvjardzhaju", "ok", "dobra"} :
        Contains(Lower(Message), <<w>>)

\* The message contains one of the two negative words.
Negative ==
    Contains(Lower(Message), <<"admena">>) \/ Contains(Lower(Message), <<"ne">>)

\* C6 as stated: in stage confirm a message with a negative word aborts the
\* booking, makes no create_record call and leaves token, patient_id and
\* insurer as they were before the message.
C6_NegativeAlwaysAborts ==
    (ToStageHandler /\ pre.stage = "confirm" /\ Negative) =>
        /\ FlowCleared(state)
        /\ \A i \in 1..Len(calls) : calls[i].tool # "create_record"
        /\ state.token = pre.token
        /\ state.patient_id = pre.patient_id
        /\ state.insurer = pre.insurer

\* C6: in stage confirm a message with a negative word and no affirmative
\* word aborts the booking: the booking fields and the candidate lists are
\* cleared, no tool is called, token and patient_id keep the values they
\* had before the message, and insurer keeps its value unless the message
\* itself assigns an insurer, which then replaces it.
C6_NegativeAborts ==
    (ToStageHandler /\ pre.stage = "confirm" /\ Negative /\ ~Affirmative) =>
        /\ FlowCleared(state)
        /\ calls = <<>>
        /\ ~raised
        /\ state.token = pre.token
        /\ state.patient_id = pre.patient_id
        /\ state.insurer = IF Truthy(_extract_insurer(Message))
                           THEN _extract_insurer(Message)
                           ELSE pre.insurer

\* A booking with a chosen slot is aborted by a negative message.
C6_Witness ==
    /\ ToStageHandler
    /\ pre.stage = "confirm"
    /\ Negative /\ ~Affirmative
    /\ pre.slot # NoneObj /\ pre.last_slots # <<>>
    /\ state.stage = NoName

\* The message is a bare number.
BareNumber ==
    /\ Replied
    /\ Message # <<>>
    /\ \A i \in 1..Len(Message) : IsDigit(Message[i])

\* The slots of last_slots, before the message, whose full startAt text the
\* message contains.
StartAtHits ==
    {i \in 1..Len(pre.last_slots) :
        Contains(Lower(Message), Lower(pre.last_slots[i].startAt))}

\* state.slot is the i-th slot of the list the message found in last_slots.
SlotIs(i) ==
    /\ state.slot # NoneObj
    /\ state.slot.startAt = pre.last_slots[i].startAt
    /\ state.slot.endAt = pre.last_slots[i].endAt
    /\ state.slot.raw = pre.last_slots[i].raw

\* C7: in stage pick_slot with n slots in last_slots, the bare number k
\* with 1 <= k <= n selects the k-th slot as state.slot and moves the stage
\* to confirm; a bare number outside 1..n selects no slot by index: the
\* stage and the slot stay as they were, unless the number contains a
\* slot's whole startAt text.
C7_IndexSelects ==
    (BareNumber /\ pre.stage = "pick_slot") =>
        IF ToInt(Message) \in 1..Len(pre.last_slots)
        THEN /\ state.stage = "confirm"
             /\ SlotIs(ToInt(Message))
        ELSE \/ state.stage = "pick_slot" /\ state.slot = pre.slot
             \/ StartAtHits # {} /\ state.stage = "confirm"
                                 /\ SlotIs(SetMin(StartAtHits))

\* The number 2 selects the second of the fetched slots.
C7_Witness ==
    /\ BareNumber
    /\ pre.stage = "pick_slot"
    /\ ToInt(Message) = 2
    /\ state.stage = "confirm"
    /\ SlotIs(2)

\* C8 as stated: in stage pick_slot a message that contains the full
\* startAt text of a slot of last_slots selects the first such slot and
\* moves the stage to confirm, whatever the format of startAt.
C8_StartAtSelects ==
    (ToStageHandler /\ pre.stage = "pick_slot" /\ StartAtHits # {}) =>
        /\ state.stage = "confirm"
        /\ SlotIs(SetMin(StartAtHits))

\* The list tool of a selection stage, and the candidates it last gave.
ListTool(stage) ==
    CASE stage = "choose_direction" -> "directions"
      [] stage = "choose_doctor" -> "doctors"
      [] stage = "choose_service" -> "services"

Candidates(st, stage) ==
    CASE stage = "choose_direction" -> st.last_directions
      [] stage = "choose_doctor" -> st.last_doctors
      [] stage = "choose_service" -> st.last_services

\* The message names a candidate: its first number is a candidate's id, or
\* it contains a candidate's name.
MatchesCandidate(items) ==
    \E i \in 1..Len(items) :
        \/ Truthy(items[i].id) /\ FirstNumber(Message) = items[i].id
        \/ Truthy(items[i].name) /\ Contains(Lower(Message), Lower(items[i].name))

Dates == FindDates(Lower(Message), 1)

\* The message makes one call, of schedule, for the range a..b.
OneScheduleCall(a, b) ==
    /\ Len(calls) = 1
    /\ calls[1].tool = "schedule"
    /\ calls[1].args.date_start = a
    /\ calls[1].args.date_end = b

\* The message is rejected: no call, nothing raised, the state untouched.
Rejected ==
    /\ calls = <<>>
    /\ ~raised
    /\ state = pre

ChosenRaw == IF pre.slot.raw = NoneObj THEN <<>> ELSE pre.slot.raw

\* The payload supplies key: the key is present with a value that is
\* neither None nor the empty string.
Supplies(raw, key) == key \in DOMAIN raw /\ raw[key] # None /\ raw[key] # <<>>

\* C11: the extra fields of a create_record call.  Each of officeId,
\* cabinetId, serviceId, directionId, office, cabinet that the chosen slot's
\* raw payload supplies is sent with the payload's value; serviceId and
\* directionId that the payload does not supply are sent with the selected
\* service_id and direction_id (when one is selected); no other key is sent.
C11_ExtraFields ==
    \A i \in 1..Len(calls) :
        calls[i].tool = "create_record" =>
            LET extra == calls[i].args.extra
                sent(key, value) == key \in DOMAIN extra /\ extra[key] = value
            IN  /\ DOMAIN extra \subseteq
                      {"officeId", "cabinetId", "serviceId", "directionId",
                       "office", "cabinet"}
                /\ \A key \in {"officeId", "cabinetId", "office", "cabinet"} :
                      IF Supplies(ChosenRaw, key)
                      THEN sent(key, ChosenRaw[key])
                      ELSE key \notin DOMAIN extra
                /\ IF Supplies(ChosenRaw, "serviceId")
                   THEN sent("serviceId", ChosenRaw["serviceId"])
                   ELSE IF Truthy(pre.service_id)
                   THEN sent("serviceId", pre.service_id)
                   ELSE "serviceId" \notin DOMAIN extra
                /\ IF Supplies(ChosenRaw, "directionId")
                   THEN sent("directionId", ChosenRaw["directionId"])
                   ELSE IF Truthy(pre.direction_id)
                   THEN sent("directionId", pre.direction_id)
                   ELSE "directionId" \notin DOMAIN extra

\* A record is created for a slot whose payload supplies serviceId, an
\* empty cabinetId and a key the program does not know, but no directionId.
C11_Witness ==
    /\ Replied
    /\ Len(calls) = 1
    /\ calls[1].tool = "create_record"
    /\ Supplies(ChosenRaw, "serviceId")
    /\ ChosenRaw["serviceId"] # pre.service_id
    /\ "cabinetId" \in DOMAIN ChosenRaw
    /\ "price" \in DOMAIN ChosenRaw
    /\ calls[1].args.extra["directionId"] = pre.direction_id

\* The message names a .har file.
NamesHar == Replied /\ Message # <<>> /\ HarPath(Message) # None

\* C12 as stated: whatever the messages, .har files included, patient_id
\* is never set while token is unset and insurer is never set while
\* patient_id is unset.
C12_GatesInOrder ==
    /\ Truthy(state.patient_id) => Truthy(state.token)
    /\ Truthy(state.insurer) => Truthy(state.patient_id)

\* C12: the gates are passed in the order token, patient id, insurer by
\* every message that names no .har file: such a message sets or changes
\* patient_id only with token already set, and insurer only with token and
\* patient_id already set.  A message that names a .har file skips the
\* gates: whatever is set, it may store the first patient id found in the
\* file and, insurer being unset, the insurer found in it; it changes
\* nothing else, and never the token.
C12_GatesInOrderButHar ==
    Replied =>
        IF NamesHar
        THEN /\ [state EXCEPT !.patient_id = pre.patient_id,
                              !.insurer = pre.insurer] = pre
             /\ state.insurer # pre.insurer => ~Truthy(pre.insurer)
             /\ \A i \in 1..Len(calls) : calls[i].tool = "har_autofill"
        ELSE /\ state.token # pre.token => ~Truthy(pre.token)
             /\ state.patient_id # pre.patient_id =>
                    Truthy(pre.token) /\ ~Truthy(pre.patient_id)
             /\ state.insurer # pre.insurer =>
                    Truthy(pre.token) /\ Truthy(pre.patient_id)

\* A .har file gives the patient id to an agent that has no token yet, and
\* the token arrives afterwards.
C12_Witness ==
    /\ Replied
    /\ ~NamesHar
    /\ ~Truthy(pre.token)
    /\ Truthy(pre.patient_id)
    /\ Truthy(state.token)

\* C13: discover_directions requests the candidate endpoints in declared
\* order up to and including the first one that answers with status 200 and
\* a non-empty normalized list, returns that endpoint and its list, and
\* requests no later endpoint; an endpoint that raises, answers another
\* status or normalizes to nothing is skipped; when no endpoint qualifies
\* every candidate has been requested and the result is the empty endpoint,
\* the empty list and a hint.  No exception escapes.
ClientDone(fn) == client.fn = fn /\ client.done

Qualifies(o) ==
    /\ ~o.exc
    /\ o.status_code = 200
    /\ _normalize_directions(_safe_json(o)) # <<>>

QualifyingCandidates ==
    {i \in 1..Len(directions_candidates) :
        Qualifies(client.arg[directions_candidates[i]])}

C13_FirstQualifyingEndpoint ==
    ClientDone("discover_directions") =>
        /\ ~client.res.raised
        /\ IF QualifyingCandidates = {}
           THEN /\ client.res.endpoint = ""
                /\ client.res.rows = <<>>
                /\ client.res.message # <<>>
                /\ client.res.probed = directions_candidates
           ELSE LET m == SetMin(QualifyingCandidates)
                    endpoint == directions_candidates[m]
                IN /\ client.res.endpoint = endpoint
                   /\ client.res.rows =
                        _normalize_directions(_safe_json(client.arg[endpoint]))
                   /\ client.res.probed = SubSeq(directions_candidates, 1, m)

C13_Witness ==
    /\ ClientDone("discover_directions")
    /\ client.arg["/directions"].exc
    /\ client.arg["/direction"].status_code = 404
    /\ client.arg["/directions/all"].status_code = 200
    /\ client.arg["/directions/all"].body = NotJson
    /\ Qualifies(client.arg["/direction/all"])
    /\ Qualifies(client.arg["/getDirections"])
    /\ client.res.endpoint = "/direction/all"
    /\ Len(client.res.probed) = 4


\* C14: create_record does not raise when the POST answers with a status
\* other than 200: it returns an object with exactly that status_code, the
\* error and sent, where sent is the form posted: the seven base fields and
\* every extra field whose value is neither None nor "" (an extra field
\* named like a base field replaces it).  As claimed, error is the parsed
\* JSON body, or the raw body text when the body is not JSON.
Rejected14 ==
    /\ ClientDone("create_record")
    /\ ~client.arg.o.exc
    /\ client.arg.o.status_code # 200

BaseFields ==
    LET a == client.arg.a
    IN [token |-> a.token, doctor |-> PyStr(a.doctor_id),
        patient |-> PyStr(a.patient_id), startAt |-> a.start_at,
        endAt |-> IF a.end_at = JNull THEN Str(<<>>) ELSE a.end_at,
        description |-> a.description, Ins_name |-> a.insurer]

KeptExtras ==
    LET extra == client.arg.extra
    IN IF extra.t # "dict" THEN {}
       ELSE {i \in 1..Len(extra.v) :
                extra.v[i].v # JNull /\ extra.v[i].v # Str(<<>>)}

SentIsForm ==
    LET sent == JGet(client.res.ret, "sent")
        extra == client.arg.extra
        keys == {sent.v[i].k : i \in 1..Len(sent.v)}
    IN /\ sent = client.res.posted
       /\ Len(sent.v) = Cardinality(keys)
       /\ keys = DOMAIN BaseFields \cup {extra.v[i].k : i \in KeptExtras}
       /\ \A key \in keys :
            JGet(sent, key) =
                IF \E i \in KeptExtras : extra.v[i].k = key
                THEN JGet(extra, key) ELSE BaseFields[key]

RejectionReported(error) ==
    /\ ~client.res.raised
    /\ {client.res.ret.v[i].k : i \in 1..Len(client.res.ret.v)}
            = {"status_code", "error", "sent"}
    /\ JGet(client.res.ret, "status_code") = J("num", client.arg.o.status_code)
    /\ JGet(client.res.ret, "error") = error
    /\ SentIsForm

NoDirection == ~JTruthy(client.arg.id_direction)

C15_EmptyOnFailure ==
    ClientDone("get_service_duration")
        /\ (NoDirection \/ client.arg.o.exc \/ client.arg.o.status_code # 200) =>
            /\ ~client.res.raised
            /\ client.res.ret = <<>>
            /\ NoDirection => client.res.requests = 0


\* C16: for a payload of nested blocks _normalize_slots emits one slot for
\* each slot dict that has a start value, in the order of the payload; a
\* start or end value that is a str of at most 5 characters with a colon
\* becomes "<date> <time>" with the date key that owns the slot list, any
\* other value is used as it is; raw holds the date under "date", the
\* values of the block that are no lists and the fields of the slot, where
\* a field of the slot beats the metadata and the metadata beats the date.
\* A slot dict is found by its path: element i of the payload, item j of
\* that dict, block b of that list, item d of the block, element s of it.
SlotPaths ==
    LET data == client.arg IN
    UNION {UNION {UNION {UNION {
        {<<i, j, b, d, s>> : s \in {s \in 1..Len(data.v[i].v[j].v.v[b].v[d].v.v) :
            LET slot == data.v[i].v[j].v.v[b].v[d].v.v[s]
            IN slot.t = "dict" /\ \E key \in {"startAt", "start", "time"} :
                                    JTruthy(JGet(slot, key))}} :
        d \in {d \in 1..Len(data.v[i].v[j].v.v[b].v) :
                  data.v[i].v[j].v.v[b].v[d].v.t = "list"}} :
        b \in {b \in 1..Len(data.v[i].v[j].v.v) : data.v[i].v[j].v.v[b].t = "dict"}} :
        j \in {j \in 1..Len(data.v[i].v) : data.v[i].v[j].v.t = "list"}} :
        i \in {i \in 1..Len(data.v) : data.v[i].t = "dict"}}

Before(p, q) ==
    \E n \in 1..5 : p[n] < q[n] /\ \A m \in 1..(n - 1) : p[m] = q[m]

FirstOf(d, keys) ==
    LET K == {n \in 1..Len(keys) : JTruthy(JGet(d, keys[n]))}
    IN IF K = {} THEN JGet(d, keys[Len(keys)]) ELSE JGet(d, keys[SetMin(K)])

Dated(date_str, value) ==
    IF value.t = "str" /\ PyLen(value.v) <= 5 /\ \E n \in 1..Len(value.v) : value.v[n] = ":"
    THEN Str(<<date_str, " ">> \o value.v)
    ELSE value

NestedPayload == ClientDone("_normalize_slots") /\ client.arg.t = "list" /\ SlotPaths # {}

C16_NestedBlocks ==
    NestedPayload =>
        /\ Len(client.res) = Cardinality(SlotPaths)
        /\ \A p \in SlotPaths :
            LET block == client.arg.v[p[1]].v[p[2]].v.v[p[3]]
                date_str == block.v[p[4]].k
                slot == block.v[p[4]].v.v[p[5]]
                out == client.res[1 + Cardinality({q \in SlotPaths : Before(q, p)})]
                meta == {m \in 1..Len(block.v) : block.v[m].v.t # "list"}
                keys == {"date"} \cup {block.v[m].k : m \in meta}
                            \cup {slot.v[n].k : n \in 1..Len(slot.v)}
            IN /\ out.startAt = Dated(date_str, FirstOf(slot, <<"startAt", "start", "time">>))
               /\ out.endAt = Dated(date_str, FirstOf(slot, <<"endAt", "end">>))
               /\ {out.raw.v[n].k : n \in 1..Len(out.raw.v)} = keys
               /\ Len(out.raw.v) = Cardinality(keys)
               /\ \A key \in keys :
                    JGet(out.raw, key) =
                        IF \E n \in 1..Len(slot.v) : slot.v[n].k = key
                        THEN JGet(slot, key)
                        ELSE IF \E m \in meta : block.v[m].k = key
                        THEN JGet(block, key)
                        ELSE Str(<<date_str>>)

C16_Witness ==
    /\ NestedPayload
    /\ Cardinality(SlotPaths) = 4
    /\ client.res[1].startAt = Str(<<"2023-10-02", " ", "08", ":", "00">>)
    /\ client.res[2].startAt = Str(<<"2023-10-01", " ", "11", ":", "00">>)
    /\ JGet(client.res[2].raw, "officeId") = Str(<<"99">>)
    /\ JGet(client.res[2].raw, "date") = Str(<<"own">>)
    /\ client.res[3].startAt = Str(<<"2023-10-01T10:00">>)
    /\ JGet(client.res[3].raw, "date") = Str(<<"meta">>)
    /\ client.res[4].endAt = Str(<<"0930">>)
    /\ JGet(client.res[4].raw, "date") = Str(<<"2023-10-03">>)

\* C17: _normalize_slots tries the three shapes in order of priority (a
\* list of dicts holding day blocks, a dict of lists of day objects, a list
\* of slot dicts) and returns what the first shape that yields a slot
\* yields: shapes are never mixed, a later shape is consulted only when
\* every earlier one yielded nothing, and the result is empty only when
\* every shape that applies to the payload yields nothing.
ShapeResults ==
    LET data == client.arg
    IN <<IF data.t = "list" THEN NestedSlots(data) ELSE <<>>,
         IF data.t = "dict" THEN DaySlots(data) ELSE <<>>,
         IF data.t = "list" THEN FlatSlots(data) ELSE <<>>>>

C17_FirstShapeWins ==
    ClientDone("_normalize_slots") =>
        LET Yielding == {n \in 1..3 : ShapeResults[n] # <<>>}
        IN IF Yielding = {} THEN client.res = <<>>
           ELSE client.res = ShapeResults[SetMin(Yielding)]

C17_Witness ==
    /\ ClientDone("_normalize_slots")
    /\ client.arg.t = "list"
    /\ ShapeResults[1] = <<>>
    /\ Len(ShapeResults[3]) = 2
    /\ client.res = ShapeResults[3]
    /\ \E i \in 1..Len(client.arg.v) :
          client.arg.t = "list" /\ client.arg.v[i].t = "dict"
          /\ JGet(client.arg.v[i], "k").t = "list"
          /\ JGet(client.arg.v[i], "k").v # <<>>


\* C18: _normalize_doctors deduplicates by the resolved id: the ids of the
\* output are pairwise distinct, every record of the output is made of the
\* first element of the input that carries its id, and the records stand in
\* the order in which their ids are first seen.
DoctorList ==
    LET data == client.arg
    IN IF data.t = "list" THEN data.v
       ELSE FirstOf(data, <<"data", "items", "result", "doctors">>).v

DoctorId(item) ==
    IF item.t = "dict" THEN FirstOf(item, <<"id", "Id", "doctorId", "ID">>) ELSE JNull

FirstCarrying(id) ==
    SetMin({i \in 1..Len(DoctorList) : DoctorId(DoctorList[i]) = id})

DoctorsReturned ==
    /\ ClientDone("_normalize_doctors")
    /\ ~client.res.raised
    /\ client.res.ret # <<>>

C18_FirstOccurrenceKept ==
    DoctorsReturned =>
        LET out == client.res.ret
        IN /\ \A m, n \in 1..Len(out) :
                m # n => JGet(out[m], "id") # JGet(out[n], "id")
           /\ \A n \in 1..Len(out) :
                /\ \E i \in 1..Len(DoctorList) :
                      DoctorId(DoctorList[i]) = JGet(out[n], "id")
                /\ JGet(out[n], "raw") = DoctorList[FirstCarrying(JGet(out[n], "id"))]
           /\ \A m, n \in 1..Len(out) :
                m < n => FirstCarrying(JGet(out[m], "id")) < FirstCarrying(JGet(out[n], "id"))
           /\ \A i \in 1..Len(DoctorList) :
                JTruthy(DoctorId(DoctorList[i])) =>
                    \E n \in 1..Len(out) : JGet(out[n], "id") = DoctorId(DoctorList[i])

C18_Witness ==
    /\ DoctorsReturned
    /\ client.arg.t = "list"
    /\ Len(client.arg.v) = 3
    /\ DoctorId(client.arg.v[1]) = J("num", 2)
    /\ DoctorId(client.arg.v[2]) = J("num", 1)
    /\ DoctorId(client.arg.v[3]) = J("num", 2)
    /\ client.arg.v[1] # client.arg.v[3]
    /\ Len(client.res.ret) = 2
    /\ JGet(client.res.ret[1], "raw") = client.arg.v[1]


\* C19: _normalize_directions gives each dict element of the list the id
\* that is the first non-null value among id, idDirection, Id, ID and the
\* name that is the first non-null value among name, title, Name, Title,
\* direction; an element is dropped exactly when none of its id fields is
\* non-null; the elements kept stand in the order of the input.
FirstNonNull(d, keys) ==
    LET K == {n \in 1..Len(keys) : JGet(d, keys[n]) # JNull}
    IN IF K = {} THEN JNull ELSE JGet(d, keys[SetMin(K)])

IdKeys == <<"id", "idDirection", "Id", "ID">>

C19_FirstNonNullId ==
    ClientDone("_normalize_directions") /\ client.arg.t = "list" =>
        LET items == client.arg.v
            Kept == {i \in 1..Len(items) :
                        items[i].t = "dict" /\ FirstNonNull(items[i], IdKeys) # JNull}
            out == client.res
        IN /\ Len(out) = Cardinality(Kept)
           /\ \A i \in Kept :
                LET row == out[Cardinality({k \in Kept : k <= i})]
                IN /\ JGet(row, "id") = FirstNonNull(items[i], IdKeys)
                   /\ JGet(row, "name") =
                        FirstNonNull(items[i],
                                     <<"name", "title", "Name", "Title", "direction">>)


\* C20: parse_har_for_patient never raises, and for a missing file, a file
\* that is not JSON and a file whose JSON has not the structure of a HAR
\* (the top level is no object, log is no object or entries is no list) it
\* returns the empty result: no patient ids, no insurer, no record fields.
HarStructure ==
    /\ client.arg.t = "dict"
    /\ JGet(client.arg, "log").t = "dict"
    /\ JGet(JGet(client.arg, "log"), "entries").t = "list"

C20_NeverRaises ==
    ClientDone("parse_har_for_patient") =>
        /\ ~client.res.raised
        /\ ~HarStructure =>
              client.res.ret = [patient_ids |-> <<>>, ins_name |-> JNull,
                                record_fields |-> <<>>]


\* C21: _to_int_minutes never raises, whatever the input: None gives None,
\* an integer is returned unchanged, a float is rounded to the nearest
\* integer, a numeric str (with "." or "," before the decimals) is parsed
\* and rounded to the nearest integer, and any other value gives None.
\* A str is numeric when it is, spaces around it apart, an optional sign and
\* digits with at most one "." or "," among them.
Numeric(text) ==
    LET s == Strip(text)
        body == IF s # <<>> /\ s[1] \in {"-", "+"} THEN Tail(s) ELSE s
    IN /\ \E i \in 1..Len(body) : IsDigit(body[i])
       /\ \A i \in 1..Len(body) : IsDigit(body[i]) \/ body[i] \in {".", ","}
       /\ Cardinality({i \in 1..Len(body) : body[i] \in {".", ","}}) <= 1

\* The value of a numeric str as a fraction n / d.
ValueOf(text) ==
    LET s == Strip(text)
        neg == s[1] = "-"
        body == IF s[1] \in {"-", "+"} THEN Tail(s) ELSE s
        P == {i \in 1..Len(body) : body[i] \in {".", ","}}
        digits == IF P = {} THEN body
                  ELSE SubSeq(body, 1, SetMin(P) - 1) \o SubSeq(body, SetMin(P) + 1, Len(body))
        n == ToInt(digits)
    IN [n |-> IF neg THEN 0 - n ELSE n,
        d |-> IF P = {} THEN 1 ELSE Pow10(Len(body) - SetMin(P))]

\* k is an integer nearest to n / d.
Nearest(k, n, d) == 2 * (k * d - n) <= d /\ 2 * (n - k * d) <= d

C21_NeverRaises ==
    ClientDone("_to_int_minutes") =>
        LET value == client.arg
            ret == client.res.ret
        IN /\ ~client.res.raised
           /\ value.t = "null" => ret = JNull
           /\ value.t = "num" => ret = value
           /\ value.t = "float" => ret.t = "num" /\ Nearest(ret.v, value.v.n, value.v.d)
           /\ value.t = "str" /\ Numeric(value.v) =>
                ret.t = "num" /\ Nearest(ret.v, ValueOf(value.v).n, ValueOf(value.v).d)
           /\ value.t = "str" /\ ~Numeric(value.v) => ret = JNull
           /\ value.t \in {"list", "dict"} => ret = JNull


\* C22: Resolver.normalize resolves a query that is string-equal to the id
\* of a known service, direction or doctor to that entity (its kind and
\* id), before any match by name; otherwise a query that is equal, ignoring
\* case, to the name of a known entity resolves to the id of that entity;
\* every other query is not found.
KindName == [services |-> "service", directions |-> "direction", doctors |-> "doctor"]

Query == IF client.arg.text = JNull THEN <<>> ELSE client.arg.text.v

IdHits ==
    {kind \in DOMAIN KindName :
        \E i \in 1..Len(client.arg.kb[kind]) : client.arg.kb[kind][i].k = Query}

NameHits ==
    UNION {{[kind |-> kind, i |-> i] : i \in {i \in 1..Len(client.arg.kb[kind]) :
                LET v == client.arg.kb[kind][i].v
                    name == IF v.t = "dict" THEN JGet(v, KindName[kind] \o "_name")
                            ELSE JNull
                IN name.t = "str" /\ Lower(name.v) = Lower(Query)}} :
           kind \in DOMAIN KindName}

C22_ExactIdThenName ==
    ClientDone("normalize") =>
        IF IdHits # {}
        THEN client.res \in {[kind |-> KindName[kind], id |-> Query] : kind \in IdHits}
        ELSE IF NameHits # {}
        THEN client.res \in {[kind |-> KindName[h.kind],
                              id |-> client.arg.kb[h.kind][h.i].k] : h \in NameHits}
        ELSE client.res = NoneObj


\* C23: every tool adapter calls its client operation with the guest token
\* when its input was built without a token, and with the given token
\* unchanged when one was given.
C23_TokenDefault ==
    ClientDone("tool_call") /\ client.res.called =>
        client.res.token = IF client.arg.given = <<>> THEN Str(DEFAULT_GUEST_TOKEN)
                           ELSE client.arg.given.token

\* The half that holds: a token given to the input reaches the client.
C23_TokenPassed ==
    ClientDone("tool_call") /\ client.res.called /\ client.arg.given # <<>> =>
        client.res.token = client.arg.given.token


Blank(value) == value.t # "str" \/ Strip(value.v) = <<>>

\* C24: ensure_gemini_token takes the token from the argument (source cli;
\* a blank one raises), else from a non-blank environment variable (env),
\* else from a non-blank token file (file, and exports it), else returns
\* (None, none); with persist a cli or env token is written to the file,
\* and a later call with the environment cleared returns the same token
\* with source file.
C24_TokenPriority ==
    /\ ClientDone("ensure_gemini_token") =>
        LET a == client.arg
            r == client.res
        IN  /\ IF a.token.t # "null"
               THEN IF Blank(a.token) THEN r.raised
                    ELSE /\ ~r.raised /\ r.source = "cli"
                         /\ r.token = Str(Strip(a.token.v))
               ELSE /\ ~r.raised
                    /\ IF ~Blank(a.env)
                       THEN r.source = "env" /\ r.token = Str(Strip(a.env.v))
                       ELSE IF ~Blank(a.file)
                       THEN /\ r.source = "file" /\ r.token = Str(Strip(a.file.v))
                            /\ r.env = r.token
                       ELSE r.source = "none" /\ r.token = JNull
            /\ a.persist /\ r.source \in {"cli", "env"} =>
                    r.file.t = "str" /\ Strip(r.file.v) = r.token.v
    /\ ClientDone("ensure_gemini_token_later") =>
        LET first == client.arg.first
        IN  first.arg.persist /\ first.res.source \in {"cli", "env"} =>
                /\ ~client.res.raised
                /\ client.res.source = "file"
                /\ client.res.token = first.res.token

\* A token taken from the environment although a token file holds another
\* one, persisted, and returned from the file by the later call.
C24_Witness ==
    /\ ClientDone("ensure_gemini_token_later")
    /\ client.arg.first.arg.persist
    /\ client.arg.first.res.source = "env"
    /\ ~Blank(client.arg.first.arg.file)
    /\ client.res.source = "file"
    /\ client.res.token = Str(<<"from-env">>)


\* The slot st has selected is one of those the schedule call of the flow in
\* progress returned, and that call was made for the doctor and the
\* service st has selected.
SlotFromSchedule(st, fetch) ==
    /\ fetch # NoneObj
    /\ Truthy(st.doctor_id) /\ fetch.doctor_id = st.doctor_id
    /\ Truthy(st.service_id) /\ fetch.service_id = st.service_id
    /\ Truthy(st.slot.startAt)
    /\ \E k \in 1..Len(fetch.val) :
          /\ fetch.val[k].startAt = st.slot.startAt
          /\ fetch.val[k].endAt = st.slot.endAt

\* C25: every create_record call is made from stage confirm and carries
\* the doctor selected in the flow in progress and the start and end of the
\* selected slot; a selected slot is always one returned by the schedule
\* call made in this flow for the selected doctor and service.  So the
\* slot is never missing when the record is finalized: the reply "no slot
\* selected" is never given.
C25_CreateCarriesFetchedSlot ==
    /\ state.slot # NoneObj => SlotFromSchedule(state, listings.schedule)
    /\ state.stage = "confirm" => state.slot # NoneObj
    /\ \A i \in 1..Len(calls) :
          calls[i].tool = "create_record" =>
              /\ pre.stage = "confirm"
              /\ pre.slot # NoneObj
              /\ calls[i].args.doctor_id = pre.doctor_id
              /\ calls[i].args.startAt = pre.slot.startAt
              /\ calls[i].args.endAt = pre.slot.endAt
    /\ Replied => reply # <<"Ne vybrany slot dlja zapisu.">>

\* A record is created for the second doctor in a second flow, the first
\* flow having fetched slots too.
C25_Witness ==
    /\ Replied
    /\ Len(calls) = 1
    /\ calls[1].tool = "create_record"
    /\ calls[1].args.doctor_id = <<"2">>
    /\ calls[1].args.startAt = SlotItem("dmy", 2).startAt
    /\ Succeeded(calls[1])


\* The stages of the create flow, as a set.
FlowStages == {Stages[k] : k \in 1..Len(Stages)}

\* C26: in every state the goal is create_record exactly when the stage is
\* one of the six stages of the create flow, and otherwise both are unset;
\* outside the flow direction_id, doctor_id, service_id, slot and
\* description are unset; inside it choose_doctor has direction_id set,
\* choose_service also doctor_id, date_range and pick_slot also service_id,
\* and confirm also the slot.
C26_StageFields ==
    /\ state.goal \in {NoName, "create_record"}
    /\ state.stage \in FlowStages \cup {NoName}
    /\ state.goal = "create_record" <=> state.stage \in FlowStages
    /\ state.goal = NoName =>
          /\ state.stage = NoName
          /\ state.direction_id = None /\ state.doctor_id = None
          /\ state.service_id = None /\ state.slot = NoneObj
          /\ state.description = None
    /\ StageIndex(state.stage) >= 2 => Truthy(state.direction_id)
    /\ StageIndex(state.stage) >= 3 => Truthy(state.doctor_id)
    /\ StageIndex(state.stage) >= 4 => Truthy(state.service_id)
    /\ StageIndex(state.stage) >= 6 =>
          state.slot # NoneObj /\ Truthy(state.slot.startAt)

\* The flow is in stage confirm, a description given, every field set.
C26_Witness ==
    /\ state.stage = "confirm"
    /\ state.goal = "create_record"
    /\ Truthy(state.description)
    /\ Truthy(state.direction_id) /\ Truthy(state.doctor_id)
    /\ Truthy(state.service_id) /\ state.slot # NoneObj

\* The flow has ended and left the state outside the flow again.
C26_WitnessOutside ==
    /\ Replied
    /\ pre.stage = "confirm"
    /\ state.stage = NoName /\ state.goal = NoName


\* The message found the three gates passed: token and patient id were set
\* before it, the insurer was set or is given by it.
PastGates ==
    /\ Replied
    /\ Truthy(pre.token) /\ Truthy(pre.patient_id)
    /\ Truthy(pre.insurer) \/ Truthy(_extract_insurer(Message))

\* The booking starts over with the message: everything selected before
\* is cleared, the message is taken as the choice of a direction among
\* pre.last_directions, and no record is created.
Restarted ==
    LET selected == _match_id_from_message(Message, pre.last_directions)
    IN  /\ state.goal = "create_record"
        /\ state.doctor_id = None /\ state.service_id = None
        /\ state.slot = NoneObj /\ state.description = None
        /\ IF Truthy(selected)
           THEN state.stage = "choose_doctor" /\ state.direction_id = selected
           ELSE state.stage = "choose_direction" /\ state.direction_id = None
        /\ state.last_slots = <<>>
        /\ \A i \in 1..Len(calls) : calls[i].tool \in {"directions", "doctors"}

\* C27 as stated: once the three gates are passed, every message that
\* contains a create keyword restarts the booking, from any state.
C27_CreateAlwaysRestarts ==
    PastGates /\ _is_create_request(Lower(Message)) => Restarted

\* C27: once the three gates are passed, a message that contains a create
\* keyword, names no HAR file and is neither a cancel nor a list request
\* restarts the booking from any state, confirm included: doctor_id,
\* service_id, slot, description and last_slots are cleared, the message
\* is handled as the choice of a direction from stage choose_direction,
\* and no create_record call is made, whatever else the message says.
C27_CreateRestarts ==
    Replied /\ BeginsFlow(pre, msg) => Restarted

\* A message with an affirmative word and a create keyword arrives in stage
\* confirm: the booking restarts.
C27_Witness ==
    /\ Replied
    /\ pre.stage = "confirm"
    /\ BeginsFlow(pre, msg)
    /\ _is_confirmation(Lower(Message))
    /\ state.stage = "choose_direction"
    /\ "create_record" \in tools


\* C28: whenever the stage is pick_slot, last_slots is not empty, whatever
\* the schedule tool did.
C28_PickSlotHasSlots ==
    state.stage = "pick_slot" => state.last_slots # <<>>

\* What does hold: the stage becomes pick_slot only by a message handled in
\* date_range, and with slots listed whenever the schedule call returned.
C28_PickSlotAfterAnswer ==
    Replied /\ state.stage = "pick_slot" /\ pre.stage # "pick_slot" =>
        /\ pre.stage = "date_range"
        /\ (Len(calls) = 1 /\ calls[1].exc = None) => state.last_slots # <<>>


\* The ids of the items of a listing.
IdsOf(items) == {items[i].id : i \in 1..Len(items)}

\* The id selected comes from the listing fetch, fetched for the direction
\* st has selected.
FromListing(st, id, fetch) ==
    /\ fetch # NoneObj
    /\ fetch.direction_id = st.direction_id
    /\ id \in IdsOf(fetch.val)

\* C29: whenever doctor_id is set it is the id of a doctor that a doctors
\* listing fetched for the selected direction returned, and whenever
\* service_id is set it is the id of a service that a services listing
\* fetched for that direction returned.
C29_IdsFromListings ==
    /\ Truthy(state.doctor_id) =>
          FromListing(state, state.doctor_id, listings.doctors)
    /\ Truthy(state.service_id) =>
          FromListing(state, state.service_id, listings.services)

\* What does hold: a selected doctor or service is one of the list the
\* agent held when it was selected.
C29_IdsFromLastLists ==
    Replied =>
        /\ (Truthy(state.doctor_id) /\ state.doctor_id # pre.doctor_id) =>
              state.doctor_id \in IdsOf(pre.last_doctors)
        /\ (Truthy(state.service_id) /\ state.service_id # pre.service_id) =>
              state.service_id \in IdsOf(pre.last_services)


\* The flow fields and the candidate lists are the same in st and old.
SameFlow(st, old) ==
    /\ st.goal = old.goal /\ st.stage = old.stage
    /\ st.direction_id = old.direction_id /\ st.doctor_id = old.doctor_id
    /\ st.service_id = old.service_id /\ st.slot = old.slot
    /\ st.description = old.description
    /\ st.last_directions = old.last_directions
    /\ st.last_doctors = old.last_doctors
    /\ st.last_services = old.last_services
    /\ st.last_slots = old.last_slots

\* A cancel or list request arrives, the gates passed, while a create flow
\* is in progress.
RequestInFlow ==
    /\ PastGates
    /\ HarPath(Message) = None
    /\ pre.goal = "create_record"
    /\ _is_cancel_request(Lower(Message)) \/ _is_list_request(Lower(Message))

\* C30: while a create flow is in progress a cancel or a list-records
\* request is handled before the handler of the stage: goal, stage,
\* direction_id, doctor_id, service_id, slot, description and the
\* candidate lists stay as they were, a cancel request changing nothing of
\* the state and a list request last_records at most; only cancel_record
\* (for a cancel request) or list_records is called, never create_record
\* or a listing tool, and the booking goes on from the same stage.
C30_RequestsKeepFlow ==
    RequestInFlow =>
        /\ SameFlow(state, pre)
        /\ state.token = pre.token /\ state.patient_id = pre.patient_id
        /\ IF _is_cancel_request(Lower(Message))
           THEN /\ state = [pre EXCEPT !.insurer = state.insurer]
                /\ \A i \in 1..Len(calls) : calls[i].tool = "cancel_record"
           ELSE /\ state = [pre EXCEPT !.insurer = state.insurer,
                                       !.last_records = state.last_records]
                /\ \A i \in 1..Len(calls) : calls[i].tool = "list_records"
        /\ state.insurer = Or(pre.insurer, _extract_insurer(Message))

\* A list request that is also a create request arrives in stage confirm
\* and stores the records; the booking is still in confirm.
C30_Witness ==
    /\ RequestInFlow
    /\ pre.stage = "confirm"
    /\ state.stage = "confirm"
    /\ _is_create_request(Lower(Message))
    /\ state.last_records # <<>>

\* A cancel request in the middle of a flow cancels a record.
C30_WitnessCancel ==
    /\ RequestInFlow
    /\ pre.stage = "pick_slot"
    /\ Len(calls) = 1
    /\ calls[1].tool = "cancel_record"
    /\ calls[1].exc = None

====
